---- MODULE Spec2Model ----
(***************************************************************************)
(* Sales advisor: the statistics-filtering and ranking engine               *)
(* (SalesAdvisorEngine._get_relevant_stats and its caller                   *)
(* analyze_opportunity), modelled as a state machine.                       *)
(*                                                                         *)
(* Representation.                                                         *)
(*  - A Python str is a sequence of one-character strings, so that         *)
(*    str.lower(), str.split("_", 1) and f-string concatenation are        *)
(*    computed character by character.                                     *)
(*  - A Python value that may be None is a sequence of length 0 (None) or  *)
(*    1 (the value).                                                       *)
(*  - A Python dict is a sequence of entries in insertion order (dicts     *)
(*    iterate in insertion order, and the code's tie-breaks depend on it). *)
(*  - win_rate, lift and frequency are integer hundredths: lift 125 is     *)
(*    1.25, frequency 10 is 0.1.  The fixtures use values that binary      *)
(*    floating point represents exactly, so that the integer arithmetic    *)
(*    here and the float arithmetic of the code order them alike.          *)
(***************************************************************************)
EXTENDS Integers, Sequences, FiniteSets, TLC

VARIABLES
    stats,        \* self.stats: quantitative tables loaded by __init__
    qual_stats,   \* self.qual_stats: qualitative tables loaded by __init__
    pc,           \* position of the request in analyze_opportunity
    attrs,        \* extracted_attrs of the request in progress
    uplift_reply, \* text the uplift-estimation chat call returned
    relevant,     \* value returned by _get_relevant_stats
    result,       \* value returned by analyze_opportunity
    llm_calls,    \* uplift-estimation chat calls of this request: their prompts
    served,       \* requests completed since startup
    earlier,      \* an earlier completed run kept for comparison (None or one)
    lookup,       \* a call of _case_insensitive_lookup on its own (None or one)
    calls,        \* external calls the request in progress has made, in order
    API_KEYS,     \* os.getenv("API_KEYS"): None when unset or empty, else the keys
    clock,        \* datetime.now(), in seconds since the service started
    rate_limit_store, \* api.py rate_limit_store: per key, the times recorded
    passed,       \* per key, every time a request passed check_rate_limit
    request,      \* the request POST /api/v1/analyze is handling (None or one)
    response,     \* the HTTP response of that request (None until answered)
    extraction,   \* a call of _extract_attributes on its own (None or one)
    session_state, \* app.py st.session_state: conversation and its answers
    chat_request  \* messages of the chat request last sent (None or one)

\* the state of the REST service, src/SalesAdvisorService/api.py
service == <<calls, API_KEYS, clock, rate_limit_store, passed, request, response>>

\* the parts modelled on their own: the validation of extracted attributes,
\* and the follow-up conversation of src/SalesAdvisor/app.py
apart == <<extraction, session_state, chat_request>>

vars == <<stats, qual_stats, pc, attrs, uplift_reply, relevant, result,
          llm_calls, served, earlier, lookup, service, apart>>

(***************************************************************************)
(* Bounds of the model.                                                    *)
(***************************************************************************)
\* requests served after startup before the model stops taking new ones
MaxRequests == 3
\* keys of a table handed to _case_insensitive_lookup on its own
MaxLookupKeys == 2

(***************************************************************************)
(* Program constants.                                                      *)
(***************************************************************************)
\* sorted(...)[:3]: alternatives kept when a product or sector is unresolved
TopAlternatives == 3
\* sorted(...)[:5]: length of top_reps
TopReps == 5
\* v["frequency"] > 0.1, in hundredths
FrequencyThreshold == 10
\* rep["sample_size"] > 200
HighConfidenceSample == 200
\* range(min(3, len(simulations)))
TopImprovements == 3

(***************************************************************************)
(* Python values.                                                          *)
(***************************************************************************)
None == << >>
Some(v) == <<v>>
Val(o) == o[1]

UpperLetters ==
    <<"A", "B", "C", "D", "E", "F", "G", "H", "I", "J", "K", "L", "M",
       "N", "O", "P", "Q", "R", "S", "T", "U", "V", "W", "X", "Y", "Z">>
LowerLetters ==
    <<"a", "b", "c", "d", "e", "f", "g", "h", "i", "j", "k", "l", "m",
       "n", "o", "p", "q", "r", "s", "t", "u", "v", "w", "x", "y", "z">>

\* str.lower() on one character: an ASCII capital becomes its small letter
LowerChar(c) ==
    IF \E i \in 1..26 : UpperLetters[i] = c
    THEN LowerLetters[CHOOSE i \in 1..26 : UpperLetters[i] = c]
    ELSE c

\* str.lower()
Lower(s) == [i \in 1..Len(s) |-> LowerChar(s[i])]

\* f"{x}": str() of a value that may be None
Format(o) == IF o = None THEN <<"N", "o", "n", "e">> ELSE Val(o)

\* f"{a}_{b}"
JoinUnderscore(a, b) == Format(a) \o <<"_">> \o Format(b)

\* index of the first "_" of s, 0 when there is none
FirstUnderscore(s) ==
    IF \E i \in 1..Len(s) : s[i] = "_"
    THEN CHOOSE i \in 1..Len(s) : s[i] = "_" /\ \A j \in 1..(i - 1) : s[j] # "_"
    ELSE 0

\* k.split("_", 1): one part when k has no underscore, else the text before
\* the first underscore and the text after it
SplitFirstUnderscore(k) ==
    LET u == FirstUnderscore(k) IN
    IF u = 0 THEN <<k>>
    ELSE <<SubSeq(k, 1, u - 1), SubSeq(k, u + 1, Len(k))>>

\* sorted(seq, key=Key, reverse=True)[i]: Python's sort is stable, and
\* reverse=True keeps the original order of elements with equal keys.
\* keys[i] is the sort key of seq[i].
RankDesc(keys, i) ==
    1 + Cardinality({j \in 1..Len(keys) :
                        keys[j] > keys[i] \/ (keys[j] = keys[i] /\ j < i)})

SortedDescUnstable(seq, keys) ==
    [p \in 1..Len(seq) |->
        seq[CHOOSE i \in 1..Len(seq) :
              p = 1 + Cardinality({j \in 1..Len(keys) :
                        keys[j] > keys[i] \/ (keys[j] = keys[i] /\ j > i)})]]

SortedDesc(seq, keys) ==
    [p \in 1..Len(seq) |-> seq[CHOOSE i \in 1..Len(seq) : RankDesc(keys, i) = p]]

\* seq[:n]
Take(seq, n) == SubSeq(seq, 1, IF Len(seq) < n THEN Len(seq) ELSE n)

\* [x for x in seq if Keep(x)], order kept
RECURSIVE FilterIdx(_, _, _)
FilterIdx(seq, keep, i) ==
    IF i > Len(seq) THEN << >>
    ELSE (IF keep[i] THEN <<seq[i]>> ELSE << >>) \o FilterIdx(seq, keep, i + 1)

\* dict assignment d[k] = v on an insertion-ordered dict of entries with a
\* field "key": an existing key keeps its position and takes the new entry
DictSet(d, e) ==
    IF \E i \in 1..Len(d) : d[i].key = e.key
    THEN [i \in 1..Len(d) |-> IF d[i].key = e.key THEN e ELSE d[i]]
    ELSE Append(d, e)

RECURSIVE DictFromSeq(_, _)
\* dict(pairs) / a dict built by assigning the entries in order
DictFromSeq(entries, i) ==
    IF i = 0 THEN << >> ELSE DictSet(DictFromSeq(entries, i - 1), entries[i])

Keys(d) == [i \in 1..Len(d) |-> d[i].key]
HasKey(d, k) == \E i \in 1..Len(d) : d[i].key = k
Get(d, k) == d[CHOOSE i \in 1..Len(d) : d[i].key = k]

(***************************************************************************)
(* _case_insensitive_lookup                                                *)
(***************************************************************************)
\* lowercase_map = {k.lower(): k for k in data_dict.keys()}: a later key
\* with the same lowercase form overwrites an earlier one
LowercaseMap(keys) ==
    DictFromSeq([i \in 1..Len(keys) |-> [key |-> Lower(keys[i]), actual |-> keys[i]]],
                Len(keys))

case_insensitive_lookup_exact(search_value, keys) ==
    IF search_value = None \/ Val(search_value) = << >> \/ keys = << >>
    THEN None
    ELSE LET m == LowercaseMap(keys) IN
         IF HasKey(m, Val(search_value))
         THEN Some(Get(m, Val(search_value)).actual)
         ELSE None

\* search_value: None or a str; keys: the keys of data_dict in order
case_insensitive_lookup(search_value, keys) ==
    IF search_value = None \/ Val(search_value) = << >> \/ keys = << >>
    THEN None
    ELSE LET m == LowercaseMap(keys)
             s == Lower(Val(search_value)) IN
         IF HasKey(m, s) THEN Some(Get(m, s).actual) ELSE None

(***************************************************************************)
(* Statistics tables.  quantitative_stats.json holds, per dimension, the   *)
(* dicts win_rate, lift and sample_size over the same keys (they are the   *)
(* columns of one groupby); an entry here is one key with its columns.     *)
(***************************************************************************)
Gx == <<"G", "x">>
GX == <<"G", "X">>
Mg == <<"M", "g">>
MgS == <<"M", "g", "_", "S">>
Gb == <<"G", "b">>
Gc == <<"G", "c">>
Gd == <<"G", "d">>
Fin == <<"F", "i", "n">>
Med == <<"M", "e", "d">>
Ret == <<"R", "e", "t">>
Agr == <<"A", "g", "r">>
North == <<"N">>
South == <<"S">>
Unknown == <<"z">>

Row(k, wr, l, n) == [key |-> k, win_rate |-> wr, lift |-> l, sample_size |-> n]
KV(k, v) == [key |-> k, value |-> v]
Cat(c, f) == [key |-> c, frequency |-> f]

\* overall_win_rate of every fixture, in hundredths
OverallWinRate == 60

ProductTables ==
    { <<Row(Gx, 75, 125, 40), Row(Mg, 60, 100, 30), Row(MgS, 75, 125, 20),
        Row(Gb, 45, 75, 10), Row(Gc, 90, 150, 5)>>,
      <<Row(Gx, 45, 75, 40), Row(GX, 75, 125, 3), Row(Gd, 60, 100, 2)>> }

SectorTables ==
    { <<Row(Fin, 45, 75, 50), Row(Med, 75, 125, 40), Row(Ret, 60, 100, 30),
        Row(Agr, 75, 125, 20)>>,
      <<Row(Fin, 60, 100, 50)>> }

RegionTables ==
    { <<Row(North, 60, 100, 70), Row(South, 45, 75, 60)>> }

RepTables ==
    { <<Row(<<"R", "a">>, 75, 125, 200), Row(<<"R", "b">>, 60, 100, 201),
        Row(<<"R", "c">>, 75, 125, 50), Row(<<"R", "d">>, 45, 75, 300),
        Row(<<"R", "e">>, 90, 150, 150), Row(<<"R", "f">>, 60, 100, 201)>>,
      <<Row(<<"R", "a">>, 45, 75, 201)>> }

\* product_sector_win_rates: keys are product + "_" + sector
ComboTables ==
    { <<KV(JoinUnderscore(Some(Gx), Some(Fin)), 70),
        KV(JoinUnderscore(Some(Mg), Some(Fin)), 65),
        KV(JoinUnderscore(Some(MgS), Some(Fin)), 80),
        KV(JoinUnderscore(Some(Gb), Some(Fin)), 65),
        KV(JoinUnderscore(Some(Gc), Some(Fin)), 50),
        KV(JoinUnderscore(Some(Gx), Some(Med)), 60)>>,
      << >> }

\* avg_revenue_by_product is computed from won deals only: a product that
\* never won has no entry
RevenueTables ==
    { <<KV(Gx, 500), KV(GX, 300), KV(Mg, 400), KV(MgS, 450), KV(Gb, 200),
        KV(Gc, 900)>> }

\* qualitative_stats.json: overall win_drivers / loss_risks, and per-segment
\* data under "segmented" (win_drivers and loss_risks there may be absent)
QualTables ==
    { [win_drivers |-> <<Cat("demo", 70), Cat("bundling", 16), Cat("roi", 13),
                         Cat("support", 16), Cat("trial", 10), Cat("misc", 5)>>,
       loss_risks |-> <<Cat("pricing", 40), Cat("competitor", 40),
                        Cat("delay", 12), Cat("feature", 11), Cat("legal", 10)>>,
       segmented |-> Some(<<
           [key |-> Fin,
            win_drivers |-> Some(<<Cat("demo", 50), Cat("roi", 8), Cat("bundling", 60)>>),
            loss_risks |-> Some(<<Cat("legal", 10), Cat("delay", 30),
                                  Cat("pricing", 45), Cat("competitor", 30)>>)],
           [key |-> Med,
            win_drivers |-> Some(<<Cat("demo", 9)>>),
            loss_risks |-> Some(<<Cat("pricing", 5)>>)],
           [key |-> Ret,
            win_drivers |-> Some(<<Cat("roi", 20)>>),
            loss_risks |-> None] >>)],
      [win_drivers |-> <<Cat("demo", 11)>>,
       loss_risks |-> <<Cat("pricing", 10), Cat("delay", 2)>>,
       segmented |-> None] }

StatsTables ==
    [overall_win_rate : {OverallWinRate},
     product : ProductTables,
     account_sector : SectorTables,
     account_region : RegionTables,
     sales_rep : RepTables,
     product_sector_win_rates : ComboTables,
     avg_revenue_by_product : RevenueTables]

(***************************************************************************)
(* Inputs of a request.                                                    *)
(***************************************************************************)
\* extracted_attrs: what the attribute extraction returned for the prompt
ProductInputs == {None, Some(<<"g", "x">>), Some(<<"M", "G", "_", "s">>), Some(Unknown)}
SectorInputs == {None, Some(<<"f", "i", "n">>), Some(<<"M", "E", "D">>),
                 Some(<<"r", "e", "t">>), Some(Unknown)}
RegionInputs == {Some(<<"n">>), Some(Unknown)}
RepInputs == {None, Some(<<"r", "A">>)}

ExtractedAttrs ==
    [product : ProductInputs, sector : SectorInputs,
     region : RegionInputs, current_rep : RepInputs]

\* text returned by the uplift-estimation chat call
UpliftReplies ==
    { <<"2", "5">>, <<"%", "5", "0", "%">>, <<"H", "i", "g", "h">>, <<"2", "%", "5">> }

(***************************************************************************)
(* _get_relevant_stats, part by part.  st is self.stats, qs is             *)
(* self.qual_stats, a is extracted_attrs.                                  *)
(***************************************************************************)
Entry(r) == [key |-> r.key, win_rate |-> r.win_rate, lift |-> r.lift]
Lifts(table) == [i \in 1..Len(table) |-> table[i].lift]

\* sorted([(k, lift[k]) for k in lift], key=lift, reverse=True)[:3], as the
\* dict the loop over alts builds
TopByLift(table) ==
    LET alts == Take(SortedDesc(table, Lifts(table)), TopAlternatives) IN
    [i \in 1..Len(alts) |-> Entry(alts[i])]

\* lines 546-576 (product) and 581-611 (sector): the matched key's record
\* alone when the value resolves, else the top alternatives by lift
DimensionStats(key, table) ==
    IF key # None THEN <<Entry(Get(table, Val(key)))>> ELSE TopByLift(table)

\* line 579: {k: avg_revenue_by_product[k] for k in relevant["products"]}
\* raises KeyError for a product with no entry
RevenueKeyError(products, st) ==
    \E i \in 1..Len(products) : ~HasKey(st.avg_revenue_by_product, products[i].key)

\* lines 624-628: the loop over product_sector_win_rates.  parts[1].lower()
\* == sector_key.lower() is evaluated for every key with an underscore and
\* raises AttributeError when sector_key is None
SectorCombosRaise(sector_key, combos) ==
    /\ sector_key = None
    /\ \E i \in 1..Len(combos) : Len(SplitFirstUnderscore(combos[i].key)) = 2

SectorCombos(sector_key, combos) ==
    LET parts == [i \in 1..Len(combos) |-> SplitFirstUnderscore(combos[i].key)]
        keep == [i \in 1..Len(combos) |->
                    /\ Len(parts[i]) = 2
                    /\ Lower(parts[i][2]) = Lower(Val(sector_key))]
        pairs == [i \in 1..Len(combos) |-> [prod |-> parts[i][1], wr |-> combos[i].value]]
    IN FilterIdx(pairs, keep, 1)

RECURSIVE AddAlternativeCombos(_, _, _, _, _, _)
\* lines 632-639: for alt_prod, wr in alts: ... relevant["product_sector"][combo_key] = wr
AddAlternativeCombos(ps, alts, i, product_key, sector_key, combos) ==
    IF i > Len(alts) THEN ps
    ELSE LET combo_key == case_insensitive_lookup(
                              Some(JoinUnderscore(Some(alts[i].prod), sector_key)),
                              Keys(combos))
             next == IF /\ Lower(alts[i].prod) # Lower(Val(product_key))
                        /\ combo_key # None
                     THEN DictSet(ps, KV(Val(combo_key), alts[i].wr))
                     ELSE ps
         IN AddAlternativeCombos(next, alts, i + 1, product_key, sector_key, combos)

\* lines 614-639, entered with a resolved product: relevant["product_sector"]
ProductSector(product_key, sector_key, combos) ==
    LET prod_sec_key == case_insensitive_lookup(
                            Some(JoinUnderscore(product_key, sector_key)), Keys(combos))
        direct == IF prod_sec_key # None
                  THEN <<KV(Val(prod_sec_key), Get(combos, Val(prod_sec_key)).value)>>
                  ELSE << >>
        sec_combos == SectorCombos(sector_key, combos)
        alts == Take(SortedDesc(sec_combos, [i \in 1..Len(sec_combos) |-> sec_combos[i].wr]),
                     TopAlternatives)
    IN AddAlternativeCombos(direct, alts, 1, product_key, sector_key, combos)

\* lines 589-639: in the engine the combination block sits in the else
\* branch of "if sector_key", so it runs exactly when the sector is
\* unresolved and the product is resolved
CombinationBlockRuns(product_key, sector_key) ==
    sector_key = None /\ product_key # None

\* the three best reps, as for the other dimensions
TopThreeReps(reps) == Take(SortedDesc(reps, Lifts(reps)), TopAlternatives)

\* lines 664-673: top_reps
TopRepsOf(reps) == Take(SortedDesc(reps, Lifts(reps)), TopReps)

(***************************************************************************)
(* Simulations, lines 675-701.  uplift_percent is kept in tenths of a      *)
(* percent: (lift - 1) * 100 is (lift - 100) * 10.                          *)
(***************************************************************************)
\* lift * 100, the percentage of the baseline instead of the change
UpliftOfLiftUnshifted(lift) == lift * 10

\* (lift - 1) * 100, in tenths of a percent
UpliftOfLift(lift) == (lift - 100) * 10

Sim(kind, name, lift, st, revenue, confidence, from_qual, uplift) ==
    [description |-> [kind |-> kind, name |-> name],
     estimated_win_rate |-> st.overall_win_rate * lift,
     uplift_percent |-> uplift,
     revenue_estimate |-> revenue,
     confidence |-> confidence,
     from_qual |-> from_qual]

SectorSimulation(sector_key, sector, st) ==
    IF sector_key # None
    THEN LET l == Get(sector, Val(sector_key)).lift IN
         <<Sim("Baseline adjusted for sector", Val(sector_key), l, st,
               None, None, FALSE, UpliftOfLift(l))>>
    ELSE << >>

\* stats["avg_revenue_by_product"].get(prod, 0)
RevenueEstimate(prod, st) ==
    IF HasKey(st.avg_revenue_by_product, prod)
    THEN Get(st.avg_revenue_by_product, prod).value
    ELSE 0

ProductSimulations(products, st) ==
    [i \in 1..Len(products) |->
        Sim("Switch to", products[i].key, products[i].lift, st,
            Some(RevenueEstimate(products[i].key, st)), None, FALSE,
            UpliftOfLift(products[i].lift))]

\* "High" from 200 deals on
ConfidenceFromThreshold(sample_size) ==
    IF sample_size >= HighConfidenceSample THEN "High" ELSE "Medium"

\* "High" if rep["sample_size"] > 200 else "Medium"
ConfidenceOf(sample_size) ==
    IF sample_size > HighConfidenceSample THEN "High" ELSE "Medium"

RepSimulations(top_reps, st) ==
    [i \in 1..Len(top_reps) |->
        Sim("Assign to", top_reps[i].key, top_reps[i].lift, st,
            None, Some(ConfidenceOf(top_reps[i].sample_size)), FALSE,
            UpliftOfLift(top_reps[i].lift))]

(***************************************************************************)
(* Qualitative insights, lines 703-732.                                    *)
(***************************************************************************)
Frequencies(cats) == [i \in 1..Len(cats) |-> cats[i].frequency]

AboveThresholdOrEqual(cats) ==
    FilterIdx(cats, [i \in 1..Len(cats) |-> cats[i].frequency >= FrequencyThreshold], 1)

\* {k: v for k, v in cats.items() if v["frequency"] > 0.1}
AboveThreshold(cats) ==
    FilterIdx(cats, [i \in 1..Len(cats) |-> cats[i].frequency > FrequencyThreshold], 1)

\* the first three in dict order, not ranked
FirstThree(cats) == Take(cats, TopAlternatives)

\* Counter({...}).most_common(3): the three largest, ties in dict order
MostCommon(cats) ==
    Take(SortedDesc(cats, Frequencies(cats)), TopAlternatives)

\* self.qual_stats.get("segmented", {})
Segmented(qs) == IF qs.segmented = None THEN << >> ELSE Val(qs.segmented)

\* lines 708-719: the sector's segment, each category type it holds filtered
SegmentInsights(seg) ==
    [win_drivers |-> IF seg.win_drivers = None THEN None
                     ELSE Some(AboveThreshold(Val(seg.win_drivers))),
     loss_risks |-> IF seg.loss_risks = None THEN None
                    ELSE Some(AboveThreshold(Val(seg.loss_risks)))]

\* lines 720-731: the overall tables, filtered, then the top three
OverallInsights(qs) ==
    [win_drivers |-> Some(MostCommon(AboveThreshold(qs.win_drivers))),
     loss_risks |-> Some(MostCommon(AboveThreshold(qs.loss_risks)))]

\* the selection before the final sort; sector is the extracted value
SelectInsights(sector, qs) ==
    LET qual_sector_key == case_insensitive_lookup(sector, Keys(Segmented(qs))) IN
    IF qual_sector_key # None
    THEN SegmentInsights(Get(Segmented(qs), Val(qual_sector_key)))
    ELSE OverallInsights(qs)

\* the overall tables cut down in place to the categories selected from them
QualStatsTrimmed(qs, sector) ==
    IF case_insensitive_lookup(sector, Keys(Segmented(qs))) # None THEN qs
    ELSE [qs EXCEPT !.win_drivers = Val(OverallInsights(qs).win_drivers),
                    !.loss_risks = Val(OverallInsights(qs).loss_risks)]

\* self.qual_stats after lines 703-731: the selection reads the tables and
\* builds new dicts (filtered, and the comprehension of line 729); nothing
\* is assigned into self.qual_stats
QualStatsAfter(qs, sector) == qs

\* the last category of highest frequency
LastTopRisk(risks) ==
    risks[CHOOSE i \in 1..Len(risks) :
            /\ \A j \in 1..Len(risks) : risks[j].frequency <= risks[i].frequency
            /\ \A j \in (i + 1)..Len(risks) : risks[j].frequency < risks[i].frequency]

\* max(loss_risks, key=frequency): the first category of highest frequency
TopRisk(risks) ==
    risks[CHOOSE i \in 1..Len(risks) :
            /\ \A j \in 1..Len(risks) : risks[j].frequency <= risks[i].frequency
            /\ \A j \in 1..(i - 1) : risks[j].frequency < risks[i].frequency]

\* line 735: "loss_risks" in qualitative_insights and it is non-empty
UpliftCallNeeded(insights) ==
    insights.loss_risks # None /\ Val(insights.loss_risks) # << >>

(***************************************************************************)
(* float(uplift_str.strip("%")), for replies over digits, "-", "%" and     *)
(* letters: the text parses exactly when, with the "%" characters at both  *)
(* ends removed, it is an optional "-" followed by one or more digits.     *)
(***************************************************************************)
Digits == {"0", "1", "2", "3", "4", "5", "6", "7", "8", "9"}

DigitValue(c) ==
    CASE c = "0" -> 0 [] c = "1" -> 1 [] c = "2" -> 2 [] c = "3" -> 3
      [] c = "4" -> 4 [] c = "5" -> 5 [] c = "6" -> 6 [] c = "7" -> 7
      [] c = "8" -> 8 [] c = "9" -> 9

\* str.strip("%")
StripPercent(s) ==
    LET kept == {i \in 1..Len(s) : s[i] # "%"} IN
    IF kept = {} THEN << >>
    ELSE SubSeq(s, CHOOSE i \in kept : \A j \in kept : i <= j,
                   CHOOSE i \in kept : \A j \in kept : j <= i)

RECURSIVE DecimalValue(_, _)
DecimalValue(s, n) ==
    IF n = 0 THEN 0 ELSE 10 * DecimalValue(s, n - 1) + DigitValue(s[n])

\* float() raises ValueError: None; else the value
ParseFloat(s) ==
    LET neg == Len(s) > 0 /\ s[1] = "-"
        body == IF neg THEN Tail(s) ELSE s
    IN IF Len(body) > 0 /\ \A i \in 1..Len(body) : body[i] \in Digits
       THEN Some((IF neg THEN -1 ELSE 1) * DecimalValue(body, Len(body)))
       ELSE None

\* the parsed reply in tenths of a percent
QualUplift(reply) ==
    LET v == ParseFloat(StripPercent(reply)) IN
    IF v = None THEN None ELSE Some(Val(v) * 10)

\* lines 736-749: what the uplift-estimation prompt is about
UpliftPrompt(insights, sector_key) ==
    [top_risk |-> TopRisk(Val(insights.loss_risks)).key,
     top_risk_freq |-> TopRisk(Val(insights.loss_risks)).frequency,
     sector |-> sector_key]

\* the call made again when its reply does not parse
UpliftCallsRepeated(insights, sector_key, reply) ==
    IF ~UpliftCallNeeded(insights) THEN << >>
    ELSE IF QualUplift(reply) = None
    THEN <<UpliftPrompt(insights, sector_key), UpliftPrompt(insights, sector_key)>>
    ELSE <<UpliftPrompt(insights, sector_key)>>

\* lines 735-762: the chat calls the block makes.  One call inside the try,
\* none in the except branch; reply is the text the call returns
UpliftCalls(insights, sector_key, reply) ==
    IF UpliftCallNeeded(insights) THEN <<UpliftPrompt(insights, sector_key)>> ELSE << >>

\* (1 - top_risk_freq) * 100, the estimate ten times too large
FallbackUpliftTimesHundred(top_risk_freq) == (100 - top_risk_freq) * 10

\* line 762: (1 - top_risk_freq) * 10, in tenths of a percent
FallbackUplift(top_risk_freq) == 100 - top_risk_freq

\* lines 755-760; estimated_win_rate baseline * (1 + uplift / 100) is kept as
\* baseline * (100 + uplift percent), the scale of baseline * lift
QualSimulation(top_risk, qual_uplift, st) ==
    [description |-> [kind |-> "Address top qual risk", name |-> top_risk.key],
     estimated_win_rate |-> (st.overall_win_rate * (1000 + qual_uplift)) \div 10,
     uplift_percent |-> qual_uplift,
     revenue_estimate |-> None,
     confidence |-> None,
     from_qual |-> TRUE]

(***************************************************************************)
(* Sorting and ranking, lines 778-825.                                     *)
(***************************************************************************)
Uplifts(sims) == [i \in 1..Len(sims) |-> sims[i].uplift_percent]

SortSimulationsUnstable(sims) == SortedDescUnstable(sims, Uplifts(sims))

\* sorted(simulations, key=uplift_percent, reverse=True)
SortSimulations(sims) == SortedDesc(sims, Uplifts(sims))

CategoriesAsSelected(cats) == cats

\* dict(sorted(cats.items(), key=frequency, reverse=True))
SortCategories(cats) == SortedDesc(cats, Frequencies(cats))

SortInsights(insights) ==
    [win_drivers |-> IF insights.win_drivers = None THEN None
                     ELSE Some(SortCategories(Val(insights.win_drivers))),
     loss_risks |-> IF insights.loss_risks = None THEN None
                    ELSE Some(SortCategories(Val(insights.loss_risks)))]

ImprovementsZeroBased(sims) ==
    [i \in 1..(IF Len(sims) < TopImprovements THEN Len(sims) ELSE TopImprovements) |->
        [rank |-> i - 1,
         recommendation |-> sims[i].description,
         uplift_percent |-> sims[i].uplift_percent,
         confidence |-> IF sims[i].confidence = None THEN "Medium"
                        ELSE Val(sims[i].confidence),
         source_type |-> IF sims[i].from_qual THEN "Qualitative insight"
                         ELSE "Quantitative simulation"]]

\* lines 808-822: sims is the sorted list
WinProbabilityImprovements(sims) ==
    [i \in 1..(IF Len(sims) < TopImprovements THEN Len(sims) ELSE TopImprovements) |->
        [rank |-> i,
         recommendation |-> sims[i].description,
         uplift_percent |-> sims[i].uplift_percent,
         confidence |-> IF sims[i].confidence = None THEN "Medium"
                        ELSE Val(sims[i].confidence),
         source_type |-> IF sims[i].from_qual THEN "Qualitative insight"
                         ELSE "Quantitative simulation"]]

(***************************************************************************)
(* _get_relevant_stats as a whole, lines 533-882.                          *)
(***************************************************************************)
ProductKey(a, st) == case_insensitive_lookup(a.product, Keys(st.product))
SectorKey(a, st) == case_insensitive_lookup(a.sector, Keys(st.account_sector))
RegionKey(a, st) == case_insensitive_lookup(a.region, Keys(st.account_region))
CurrentRepKey(a, st) == case_insensitive_lookup(a.current_rep, Keys(st.sales_rep))

\* the exception _get_relevant_stats raises on these inputs, "none" if it
\* returns: KeyError at line 579, AttributeError at line 627
RaisedException(a, st) ==
    LET product_key == ProductKey(a, st)
        sector_key == SectorKey(a, st)
        products == DimensionStats(product_key, st.product)
    IN IF products # << >> /\ RevenueKeyError(products, st) THEN "KeyError"
       ELSE IF /\ CombinationBlockRuns(product_key, sector_key)
               /\ SectorCombosRaise(sector_key, st.product_sector_win_rates)
            THEN "AttributeError"
            ELSE "none"

\* the list of a kept earlier request is not cleared before appending
BuiltSimulationsCarried(a, st) ==
    (IF earlier # None /\ Val(earlier).result.success
     THEN Val(Val(earlier).result.relevant_stats).simulations ELSE << >>)
    \o SectorSimulation(SectorKey(a, st), st.account_sector, st)
    \o ProductSimulations(DimensionStats(ProductKey(a, st), st.product), st)
    \o RepSimulations(TopRepsOf(st.sales_rep), st)

\* simulations as appended by lines 675-701, before the qualitative one
BuiltSimulations(a, st) ==
    SectorSimulation(SectorKey(a, st), st.account_sector, st)
    \o ProductSimulations(DimensionStats(ProductKey(a, st), st.product), st)
    \o RepSimulations(TopRepsOf(st.sales_rep), st)

\* simulations when line 779 sorts them; reply is the uplift reply
SimulationsBeforeSort(a, st, qs, reply) ==
    LET insights == SelectInsights(a.sector, qs) IN
    IF UpliftCallNeeded(insights) /\ QualUplift(reply) # None
    THEN Append(BuiltSimulations(a, st),
                QualSimulation(TopRisk(Val(insights.loss_risks)), Val(QualUplift(reply)), st))
    ELSE BuiltSimulations(a, st)

\* relevant["qual_lift_estimate"], absent when no call is made
QualLiftEstimate(a, qs, reply) ==
    LET insights == SelectInsights(a.sector, qs) IN
    IF ~UpliftCallNeeded(insights) THEN None
    ELSE IF QualUplift(reply) # None THEN QualUplift(reply)
    ELSE Some(FallbackUplift(TopRisk(Val(insights.loss_risks)).frequency))

\* the returned dict; called only when RaisedException is "none"
get_relevant_stats(a, st, qs, reply) ==
    LET product_key == ProductKey(a, st)
        sector_key == SectorKey(a, st)
        region_key == RegionKey(a, st)
        current_rep_key == CurrentRepKey(a, st)
        products == DimensionStats(product_key, st.product)
        simulations == SortSimulations(SimulationsBeforeSort(a, st, qs, reply))
    IN [overall_win_rate |-> st.overall_win_rate,
        products |-> products,
        avg_revenue_by_product |->
            IF products = << >> THEN None
            ELSE Some([i \in 1..Len(products) |->
                         Get(st.avg_revenue_by_product, products[i].key)]),
        sector |-> DimensionStats(sector_key, st.account_sector),
        product_sector |->
            IF CombinationBlockRuns(product_key, sector_key)
            THEN Some(ProductSector(product_key, sector_key, st.product_sector_win_rates))
            ELSE None,
        region |-> IF region_key # None
                   THEN Some(<<Entry(Get(st.account_region, Val(region_key)))>>)
                   ELSE None,
        current_rep |-> IF current_rep_key # None
                        THEN Some(Get(st.sales_rep, Val(current_rep_key)))
                        ELSE None,
        top_reps |-> TopRepsOf(st.sales_rep),
        qualitative_insights |-> SortInsights(SelectInsights(a.sector, qs)),
        qual_lift_estimate |-> QualLiftEstimate(a, qs, reply),
        win_probability_improvements |-> WinProbabilityImprovements(simulations),
        simulations |-> simulations]

(***************************************************************************)
(* analyze_opportunity, lines 147-255, and the engine's startup.           *)
(***************************************************************************)
Success(a, rel) ==
    [success |-> TRUE, error_message |-> None, extracted_attributes |-> Some(a),
     relevant_stats |-> Some(rel), recommendation |-> Some("recommendation"),
     won_matches |-> Some("won_docs"), lost_matches |-> Some("lost_docs")]

\* the except branch, lines 244-255
Failure(error) ==
    [success |-> FALSE, error_message |-> Some(error), extracted_attributes |-> None,
     relevant_stats |-> None, recommendation |-> None,
     won_matches |-> None, lost_matches |-> None]

\* the REST service is not part of the run
NoService ==
    /\ calls = << >>
    /\ API_KEYS = None
    /\ clock = 0
    /\ rate_limit_store = << >>
    /\ passed = << >>
    /\ request = None
    /\ response = None

\* neither of the parts modelled on their own is in the run
NoApart ==
    /\ extraction = None
    /\ session_state = None
    /\ chat_request = None

\* __init__, lines 130-142: the tables are loaded; no request in progress
NoRequest ==
    /\ pc = "idle"
    /\ attrs = None
    /\ uplift_reply = None
    /\ relevant = None
    /\ result = None
    /\ llm_calls = << >>
    /\ served = 0
    /\ earlier = None

Init ==
    /\ stats \in StatsTables
    /\ qual_stats \in QualTables
    /\ NoRequest
    /\ lookup = None
    /\ NoApart
    /\ NoService

\* Step 1, lines 170-186: extraction returned attributes that are not all None
Extract(pool) ==
    /\ pc = "idle"
    /\ served < MaxRequests
    /\ \E a \in pool :
        /\ \E f \in DOMAIN a : a[f] # None
        /\ attrs' = Some(a)
    /\ pc' = "extracted"
    /\ UNCHANGED <<stats, qual_stats, uplift_reply, relevant, result, llm_calls,
                   served, earlier, lookup, apart, service>>

\* Step 2, line 190: the whole of _get_relevant_stats, the uplift call included
Assemble(replies) ==
    /\ pc = "extracted"
    /\ \E reply \in replies :
        LET a == Val(attrs)
            called == UpliftCallNeeded(SelectInsights(a.sector, qual_stats)) IN
        IF RaisedException(a, stats) # "none"
        THEN /\ pc' = "raised"
             /\ relevant' = None
             /\ uplift_reply' = None
             /\ llm_calls' = << >>
        ELSE /\ pc' = "assembled"
             /\ relevant' = Some(get_relevant_stats(a, stats, qual_stats, reply))
             /\ uplift_reply' = IF called THEN Some(reply) ELSE None
             /\ llm_calls' = UpliftCalls(SelectInsights(a.sector, qual_stats),
                                        SectorKey(a, stats), reply)
    /\ qual_stats' = IF RaisedException(Val(attrs), stats) # "none" THEN qual_stats
                     ELSE QualStatsAfter(qual_stats, Val(attrs).sector)
    /\ UNCHANGED <<stats, attrs, result, served, earlier, lookup, apart, service>>

AnalyzeOpportunity == Extract(ExtractedAttrs)

GetRelevantStats == Assemble(UpliftReplies)

\* Steps 3-5, lines 193-242: searches, recommendation, the success result
Recommend ==
    /\ pc = "assembled"
    /\ result' = Some(Success(Val(attrs), Val(relevant)))
    /\ pc' = "returned"
    /\ UNCHANGED <<stats, qual_stats, attrs, uplift_reply, relevant, llm_calls,
                   served, earlier, lookup, apart, service>>

\* lines 244-255: an exception of the steps above becomes a failure result
HandleException ==
    /\ pc = "raised"
    /\ result' = Some(Failure(RaisedException(Val(attrs), stats)))
    /\ pc' = "returned"
    /\ UNCHANGED <<stats, qual_stats, attrs, uplift_reply, relevant, llm_calls,
                   served, earlier, lookup, apart, service>>

\* the caller has the result; everything built for the request is discarded
Finish ==
    /\ pc = "returned"
    /\ pc' = "idle"
    /\ attrs' = None
    /\ uplift_reply' = None
    /\ relevant' = None
    /\ result' = None
    /\ llm_calls' = << >>
    /\ served' = served + 1
    /\ UNCHANGED <<stats, qual_stats, lookup, apart, service>>

NextRequest ==
    /\ Finish
    /\ UNCHANGED earlier

Next ==
    \/ AnalyzeOpportunity
    \/ GetRelevantStats
    \/ Recommend
    \/ HandleException
    \/ NextRequest

Spec == Init /\ [][Next]_vars

(***************************************************************************)
(* The Streamlit app, src/SalesAdvisor/app.py: get_relevant_stats (lines   *)
(* 272-537) and the analysis of one opportunity in main (lines 620-1107).  *)
(* The app reads qualitative statistics whose segment categories are       *)
(* counts, and normalises them by the totals under "overall".              *)
(***************************************************************************)
Count(c, n) == [key |-> c, count |-> n]

AppQualTables ==
    { [win_drivers |-> <<Cat("demo", 70), Cat("bundling", 16), Cat("trial", 10)>>,
       loss_risks |-> <<Cat("pricing", 40), Cat("competitor", 40),
                        Cat("delay", 12), Cat("feature", 11), Cat("legal", 10)>>,
       overall |-> [total_win |-> None, total_loss |-> Some(10)],
       segmented |-> Some(<<
           [key |-> Fin,
            win_drivers |-> Some(<<Count("demo", 3), Count("roi", 1)>>),
            loss_risks |-> Some(<<Count("legal", 1), Count("pricing", 2),
                                  Count("budget", 5)>>)] >>)],
      [win_drivers |-> <<Cat("demo", 11)>>,
       loss_risks |-> <<Cat("pricing", 10), Cat("delay", 2)>>,
       overall |-> [total_win |-> Some(0), total_loss |-> Some(0)],
       segmented |-> Some(<<
           [key |-> Med,
            win_drivers |-> None,
            loss_risks |-> Some(<<Count("pricing", 4)>>)] >>)] }

AppAttrs ==
    [product : ProductInputs,
     sector : {Some(<<"f", "i", "n">>), Some(<<"M", "E", "D">>), Some(Unknown)},
     region : RegionInputs,
     current_rep : {None}]

AppReplies == { <<"2", "5">>, <<"H", "i", "g", "h">> }

\* lines 283-300 (product) and 313-330 (sector), entered with a resolved
\* key: its record, then the three other keys of highest lift
AppDimensionStats(key, table) ==
    LET others == FilterIdx(table,
                            [i \in 1..Len(table) |-> Lower(table[i].key) # Lower(Val(key))], 1)
        alts == Take(SortedDesc(others, Lifts(others)), TopAlternatives)
    IN <<Entry(Get(table, Val(key)))>> \o [i \in 1..Len(alts) |-> Entry(alts[i])]

\* relevant["products"] / relevant["sector"]: absent when the key is unresolved
AppDimension(key, table) ==
    IF key # None THEN Some(AppDimensionStats(key, table)) ELSE None

\* lines 332-353: the combination block sits inside "if sector_key" and
\* "if product_key"
AppProductSector(product_key, sector_key, combos) ==
    IF sector_key # None /\ product_key # None
    THEN Some(ProductSector(product_key, sector_key, combos))
    ELSE None

\* line 301 raises KeyError for a listed product with no average revenue
AppRaisedException(a, st) ==
    LET products == AppDimension(ProductKey(a, st), st.product) IN
    IF products # None /\ RevenueKeyError(Val(products), st) THEN "KeyError" ELSE "none"

\* lines 386-412
AppBuiltSimulations(a, st) ==
    LET products == AppDimension(ProductKey(a, st), st.product) IN
    SectorSimulation(SectorKey(a, st), st.account_sector, st)
    \o (IF products # None THEN ProductSimulations(Val(products), st) ELSE << >>)
    \o RepSimulations(TopRepsOf(st.sales_rep), st)

\* qual_stats["overall"].get(denom_key, 1)
AppDenominator(total) == IF total = None THEN 1 ELSE Val(total)

\* freq = count / denom if denom > 0 else 0, in hundredths
AppFrequency(count, denom) == IF denom > 0 THEN (count * 100) \div denom ELSE 0

AppNormalize(cats, denom) ==
    [i \in 1..Len(cats) |-> Cat(cats[i].key, AppFrequency(cats[i].count, denom))]

\* lines 417-434
AppSegmentInsights(seg, qs) ==
    [win_drivers |->
        IF seg.win_drivers = None THEN None
        ELSE Some(AboveThreshold(AppNormalize(Val(seg.win_drivers),
                                              AppDenominator(qs.overall.total_win)))),
     loss_risks |->
        IF seg.loss_risks = None THEN None
        ELSE Some(AboveThreshold(AppNormalize(Val(seg.loss_risks),
                                              AppDenominator(qs.overall.total_loss))))]

\* lines 415-438
AppSelectInsights(sector, qs) ==
    LET qual_sector_key == case_insensitive_lookup(sector, Keys(Segmented(qs))) IN
    IF qual_sector_key # None
    THEN AppSegmentInsights(Get(Segmented(qs), Val(qual_sector_key)), qs)
    ELSE OverallInsights(qs)

\* simulations when lines 483-487 sort them
AppSimulationsBeforeSort(a, st, qs, reply) ==
    LET insights == AppSelectInsights(a.sector, qs) IN
    IF UpliftCallNeeded(insights) /\ QualUplift(reply) # None
    THEN Append(AppBuiltSimulations(a, st),
                QualSimulation(TopRisk(Val(insights.loss_risks)), Val(QualUplift(reply)), st))
    ELSE AppBuiltSimulations(a, st)

\* the returned dict; called only when AppRaisedException is "none"
app_get_relevant_stats(a, st, qs, reply) ==
    LET product_key == ProductKey(a, st)
        sector_key == SectorKey(a, st)
        region_key == RegionKey(a, st)
        current_rep_key == CurrentRepKey(a, st)
        products == AppDimension(product_key, st.product)
        insights == AppSelectInsights(a.sector, qs)
        simulations == SortSimulations(AppSimulationsBeforeSort(a, st, qs, reply))
    IN [overall_win_rate |-> st.overall_win_rate,
        products |-> products,
        avg_revenue_by_product |->
            IF products = None THEN None
            ELSE Some([i \in 1..Len(Val(products)) |->
                         Get(st.avg_revenue_by_product, Val(products)[i].key)]),
        sector |-> AppDimension(sector_key, st.account_sector),
        product_sector |-> AppProductSector(product_key, sector_key,
                                            st.product_sector_win_rates),
        region |-> IF region_key # None
                   THEN Some(<<Entry(Get(st.account_region, Val(region_key)))>>)
                   ELSE None,
        current_rep |-> IF current_rep_key # None
                        THEN Some(Get(st.sales_rep, Val(current_rep_key)))
                        ELSE None,
        top_reps |-> TopRepsOf(st.sales_rep),
        qualitative_insights |-> SortInsights(insights),
        qual_lift_estimate |->
            IF ~UpliftCallNeeded(insights) THEN None
            ELSE IF QualUplift(reply) # None THEN QualUplift(reply)
            ELSE Some(FallbackUplift(TopRisk(Val(insights.loss_risks)).frequency)),
        win_probability_improvements |-> WinProbabilityImprovements(simulations),
        simulations |-> simulations]

InitApp ==
    /\ stats \in { st \in StatsTables : /\ Len(st.sales_rep) = 1
                                        /\ Len(st.account_sector) > 1 }
    /\ qual_stats \in AppQualTables
    /\ NoRequest
    /\ lookup = None
    /\ NoApart
    /\ NoService

\* lines 620-634: an opportunity is submitted and its attributes extracted
AppExtract == Extract(AppAttrs)

\* lines 637-643: the whole of get_relevant_stats, the uplift call included
AppGetRelevantStats ==
    /\ pc = "extracted"
    /\ \E reply \in AppReplies :
        LET a == Val(attrs)
            called == UpliftCallNeeded(AppSelectInsights(a.sector, qual_stats)) IN
        IF AppRaisedException(a, stats) # "none"
        THEN /\ pc' = "raised"
             /\ relevant' = None
             /\ uplift_reply' = None
             /\ llm_calls' = << >>
        ELSE /\ pc' = "assembled"
             /\ relevant' = Some(app_get_relevant_stats(a, stats, qual_stats, reply))
             /\ uplift_reply' = IF called THEN Some(reply) ELSE None
             /\ llm_calls' = UpliftCalls(AppSelectInsights(a.sector, qual_stats),
                                        SectorKey(a, stats), reply)
    /\ UNCHANGED <<stats, qual_stats, attrs, result, served, earlier, lookup, apart, service>>

\* lines 645-1103: searches, recommendation, show_analysis set
AppShowAnalysis ==
    /\ pc = "assembled"
    /\ result' = Some([show_analysis |-> TRUE, error |-> None])
    /\ pc' = "returned"
    /\ UNCHANGED <<stats, qual_stats, attrs, uplift_reply, relevant, llm_calls,
                   served, earlier, lookup, apart, service>>

\* lines 1106-1107: st.error
AppShowError ==
    /\ pc = "raised"
    /\ result' = Some([show_analysis |-> FALSE,
                       error |-> Some(AppRaisedException(Val(attrs), stats))])
    /\ pc' = "returned"
    /\ UNCHANGED <<stats, qual_stats, attrs, uplift_reply, relevant, llm_calls,
                   served, earlier, lookup, apart, service>>

NextApp ==
    \/ AppExtract
    \/ AppGetRelevantStats
    \/ AppShowAnalysis
    \/ AppShowError
    \/ NextRequest

SpecApp == InitApp /\ [][NextApp]_vars

(***************************************************************************)
(* Two runs compared: the same engine, with one completed run kept so that *)
(* a later run on the same inputs can be compared with it.  The inputs are *)
(* drawn from smaller pools.                                               *)
(***************************************************************************)
RepeatAttrs ==
    [product : {Some(<<"g", "x">>), Some(Unknown)},
     sector : {None, Some(<<"f", "i", "n">>), Some(<<"r", "e", "t">>)},
     region : {Some(<<"n">>)},
     current_rep : {None}]

RepeatReplies == { <<"2", "5">>, <<"%", "5", "0", "%">>, <<"H", "i", "g", "h">> }

InitRepeat ==
    /\ stats \in { st \in StatsTables : /\ Len(st.sales_rep) = 1
                                        /\ st.product_sector_win_rates = << >> }
    /\ qual_stats \in QualTables
    /\ NoRequest
    /\ lookup = None
    /\ NoApart
    /\ NoService

AnalyzeOpportunityAgain == Extract(RepeatAttrs)

GetRelevantStatsAgain == Assemble(RepeatReplies)

\* the completed run is kept (its inputs and what it returned), once
KeepRun ==
    /\ earlier = None
    /\ Finish
    /\ earlier' = Some([attrs |-> attrs, uplift_reply |-> uplift_reply,
                        result |-> Val(result), after |-> served])

NextRepeat ==
    \/ AnalyzeOpportunityAgain
    \/ GetRelevantStatsAgain
    \/ Recommend
    \/ HandleException
    \/ NextRequest
    \/ KeepRun

SpecRepeat == InitRepeat /\ [][NextRepeat]_vars

(***************************************************************************)
(* _case_insensitive_lookup on its own: a table and a search value are     *)
(* drawn, the function is applied to the value and then to another value   *)
(* that differs from it only in letter case.                               *)
(***************************************************************************)
LookupStrings ==
    { << >>, <<"a">>, <<"A">>, <<"b">>, <<"a", "b">>, <<"A", "b">>, <<"A", "B">> }

RECURSIVE DistinctSeqs(_, _)
\* the sequences of at most n distinct elements of S: the key lists of dicts
DistinctSeqs(S, n) ==
    IF n = 0 THEN { << >> }
    ELSE LET shorter == DistinctSeqs(S, n - 1) IN
         shorter \cup { Append(q, x) : q \in shorter, x \in S }

LookupTables ==
    { q \in DistinctSeqs(LookupStrings, MaxLookupKeys) :
        \A i, j \in 1..Len(q) : i # j => q[i] # q[j] }

LookupValues == {None} \cup { Some(v) : v \in LookupStrings }

NoEngine ==
    /\ stats = None
    /\ qual_stats = None
    /\ NoRequest

InitLookup ==
    /\ NoEngine
    /\ NoService
    /\ NoApart
    /\ lookup \in { Some([stage |-> "drawn", keys |-> k, search_value |-> v,
                          found |-> None, other_value |-> None, other_found |-> None]) :
                    k \in LookupTables, v \in LookupValues }

Lookup ==
    /\ Val(lookup).stage = "drawn"
    /\ lookup' = Some([Val(lookup) EXCEPT
                         !.stage = "found",
                         !.found = case_insensitive_lookup(Val(lookup).search_value,
                                                           Val(lookup).keys)])
    /\ UNCHANGED <<stats, qual_stats, pc, attrs, uplift_reply, relevant, result,
                   llm_calls, served, earlier, service, apart>>

LookupOtherCase ==
    /\ Val(lookup).stage = "found"
    /\ Val(lookup).search_value # None
    /\ \E v \in LookupStrings :
        /\ Lower(v) = Lower(Val(Val(lookup).search_value))
        /\ lookup' = Some([Val(lookup) EXCEPT
                             !.stage = "again",
                             !.other_value = Some(v),
                             !.other_found = case_insensitive_lookup(Some(v),
                                                                     Val(lookup).keys)])
    /\ UNCHANGED <<stats, qual_stats, pc, attrs, uplift_reply, relevant, result,
                   llm_calls, served, earlier, service, apart>>

NextLookup ==
    \/ Lookup
    \/ LookupOtherCase

SpecLookup == InitLookup /\ [][NextLookup]_vars

(***************************************************************************)
(* Properties.                                                             *)
(***************************************************************************)
Min(x, y) == IF x < y THEN x ELSE y

\* every listed product has an average revenue, so line 579 cannot raise
RevenueComplete ==
    \A i \in 1..Len(stats.product) :
        HasKey(stats.avg_revenue_by_product, stats.product[i].key)

Succeeded == pc = "returned" /\ Val(result).success

\* d holds keys of table such that no key left out has a higher lift
HighestLiftKeys(d, table) ==
    /\ \A i \in 1..Len(d) : HasKey(table, d[i].key) /\ d[i] = Entry(Get(table, d[i].key))
    /\ \A i \in 1..Len(d) : \A j \in 1..Len(table) :
          ~HasKey(d, table[j].key) => table[j].lift <= d[i].lift

LiftDescending(d) == \A i \in 1..(Len(d) - 1) : d[i].lift >= d[i + 1].lift

\* C1: whatever mix of recognised and unrecognised product, sector, region
\* and rep a request names (tables non-empty, external calls succeeding), the
\* assembly of its statistics does not raise and the request returns
\* success = true.  Stated for tables in which every product has an average
\* revenue, so that the remaining failures are those of the lookups.
C1_AlwaysSucceeds ==
    (pc = "returned" /\ RevenueComplete) => Val(result).success

\* the output of a dimension whose supplied value matches no key: no record
\* of the supplied value, one to three alternatives, the keys of highest lift
UnmatchedOutput(search, table, out) ==
    (search # None /\ case_insensitive_lookup(search, Keys(table)) = None) =>
        /\ out # None
        /\ Len(Val(out)) >= 1
        /\ Len(Val(out)) <= 3
        /\ \A i \in 1..Len(Val(out)) : Lower(Val(out)[i].key) # Lower(Val(search))
        /\ HighestLiftKeys(Val(out), table)

\* C2: in a successful request, for product, sector and region alike, a
\* supplied value that matches no key of the dimension's table yields no
\* matched record and between one and three alternatives, which are the keys
\* of highest lift.
C2_UnmatchedGivesAlternatives ==
    Succeeded =>
        LET a == Val(attrs)
            rel == Val(relevant) IN
        /\ UnmatchedOutput(a.product, stats.product, Some(rel.products))
        /\ UnmatchedOutput(a.sector, stats.account_sector, Some(rel.sector))
        /\ UnmatchedOutput(a.region, stats.account_region, rel.region)

\* the output of a dimension whose supplied value resolves: the matched
\* record first, then min(3, n - 1) other keys, of highest lift, descending
MatchedOutput(search, table, out) ==
    LET key == case_insensitive_lookup(search, Keys(table)) IN
    key # None =>
        /\ out # None
        /\ Len(Val(out)) = 1 + Min(3, Len(table) - 1)
        /\ Val(out)[1] = Entry(Get(table, Val(key)))
        /\ \A i \in 2..Len(Val(out)) : Val(out)[i].key # Val(key)
        /\ LiftDescending(Tail(Val(out)))
        /\ HighestLiftKeys(Val(out), table)

\* C3: in a successful request, for each of product, sector, region and rep,
\* a supplied value that resolves to a key yields that key's record together
\* with min(3, n - 1) other keys of highest lift, in descending order of lift,
\* the matched key never among them.  For the rep the output is current_rep
\* followed by top_reps.
C3_MatchedWithAlternatives ==
    Succeeded =>
        LET a == Val(attrs)
            rel == Val(relevant) IN
        /\ MatchedOutput(a.product, stats.product, Some(rel.products))
        /\ MatchedOutput(a.sector, stats.account_sector, Some(rel.sector))
        /\ MatchedOutput(a.region, stats.account_region, rel.region)
        /\ MatchedOutput(a.current_rep, stats.sales_rep,
                         IF rel.current_rep = None THEN None
                         ELSE Some(<<Entry(Val(rel.current_rep))>>
                                   \o [i \in 1..Len(rel.top_reps) |-> Entry(rel.top_reps[i])]))

\* the keys whose lowercase form equals that of s
KeysMatching(s, keys) == { i \in 1..Len(keys) : Lower(keys[i]) = Lower(s) }

\* C4: the lookup returns a key whose lowercase form equals the lowercase
\* form of the search value, or None when the search value is None or empty
\* or no key matches; and a search value that differs only in letter case
\* returns the same result.
C4_LookupIgnoresCase ==
    (lookup # None /\ Val(lookup).stage # "drawn") =>
        LET l == Val(lookup)
            nothing == \/ l.search_value = None
                       \/ Val(l.search_value) = << >>
                       \/ KeysMatching(Val(l.search_value), l.keys) = {}
        IN /\ nothing => l.found = None
           /\ ~nothing => /\ l.found # None
                          /\ \E i \in KeysMatching(Val(l.search_value), l.keys) :
                                l.keys[i] = Val(l.found)
           /\ l.stage = "again" => l.other_found = l.found

C4_Witness ==
    /\ lookup # None
    /\ Val(lookup).stage = "again"
    /\ Val(lookup).found # None
    /\ Val(lookup).found # Val(lookup).search_value
    /\ Val(lookup).other_value # Val(lookup).search_value
    /\ Len(Val(lookup).keys) > 1

\* C5: win_probability_improvements has min(3, len(simulations)) entries, and
\* the i-th has rank i and the description and uplift_percent of the i-th
\* simulation of the sorted list.
C5_TopImprovements ==
    relevant # None =>
        LET sims == Val(relevant).simulations
            wpi == Val(relevant).win_probability_improvements IN
        /\ Len(wpi) = Min(3, Len(sims))
        /\ \A i \in 1..Len(wpi) :
              /\ wpi[i].rank = i
              /\ wpi[i].recommendation = sims[i].description
              /\ wpi[i].uplift_percent = sims[i].uplift_percent

C5_Witness ==
    /\ pc = "returned"
    /\ relevant # None
    /\ Len(Val(relevant).simulations) > 3
    /\ Val(relevant).simulations[2].from_qual

BuiltNow ==
    IF uplift_reply = None THEN BuiltSimulations(Val(attrs), stats)
    ELSE SimulationsBeforeSort(Val(attrs), stats, qual_stats, Val(uplift_reply))

\* C7: the output simulations are a permutation of the simulations built, in
\* non-increasing order of uplift_percent, and simulations of equal uplift
\* keep the order in which they were built (sector, products, reps, then the
\* qualitative one).
C7_StableDescendingSort ==
    relevant # None =>
        LET built == BuiltNow
            out == Val(relevant).simulations IN
        /\ Len(out) = Len(built)
        /\ \A i, k \in 1..Len(built) : i # k => built[i] # built[k]
        /\ \A i \in 1..Len(built) : \E j \in 1..Len(out) : out[j] = built[i]
        /\ \A j \in 1..(Len(out) - 1) : out[j].uplift_percent >= out[j + 1].uplift_percent
        /\ \A i, k \in 1..Len(built) :
              (i < k /\ built[i].uplift_percent = built[k].uplift_percent) =>
                  \E j, m \in 1..Len(out) : j < m /\ out[j] = built[i] /\ out[m] = built[k]

C7_Witness ==
    /\ relevant # None
    /\ Val(relevant).simulations # BuiltNow
    /\ \E i, k \in 1..Len(BuiltNow) :
          /\ i < k
          /\ BuiltNow[k].from_qual
          /\ BuiltNow[i].uplift_percent = BuiltNow[k].uplift_percent

SameCategories(out, sel) ==
    /\ Len(out) = Len(sel)
    /\ \A i \in 1..Len(sel) : \E j \in 1..Len(out) : out[j] = sel[i]
    /\ \A i, k \in 1..Len(sel) : i # k => sel[i].key # sel[k].key

FrequencyDescending(cats) ==
    \A i \in 1..(Len(cats) - 1) : cats[i].frequency >= cats[i + 1].frequency

\* C8: in the output, win_drivers and loss_risks are each in non-increasing
\* order of frequency and hold exactly the categories the selection retained,
\* with their values unchanged.
C8_InsightsSortedNotChanged ==
    relevant # None =>
        LET sel == SelectInsights(Val(attrs).sector, qual_stats)
            out == Val(relevant).qualitative_insights IN
        /\ (out.win_drivers = None) <=> (sel.win_drivers = None)
        /\ (out.loss_risks = None) <=> (sel.loss_risks = None)
        /\ out.win_drivers # None =>
              /\ SameCategories(Val(out.win_drivers), Val(sel.win_drivers))
              /\ FrequencyDescending(Val(out.win_drivers))
        /\ out.loss_risks # None =>
              /\ SameCategories(Val(out.loss_risks), Val(sel.loss_risks))
              /\ FrequencyDescending(Val(out.loss_risks))

C8_Witness ==
    /\ relevant # None
    /\ Val(relevant).qualitative_insights.win_drivers # None
    /\ Val(relevant).qualitative_insights.loss_risks # None
    /\ Val(relevant).qualitative_insights.win_drivers
          # SelectInsights(Val(attrs).sector, qual_stats).win_drivers
    /\ Len(Val(Val(relevant).qualitative_insights.loss_risks)) > 2

\* C9: every category present in the output qualitative insights has a
\* frequency strictly above 0.1.
C9_AboveThreshold ==
    relevant # None =>
        LET out == Val(relevant).qualitative_insights IN
        /\ out.win_drivers # None =>
              \A i \in 1..Len(Val(out.win_drivers)) :
                  Val(out.win_drivers)[i].frequency > FrequencyThreshold
        /\ out.loss_risks # None =>
              \A i \in 1..Len(Val(out.loss_risks)) :
                  Val(out.loss_risks)[i].frequency > FrequencyThreshold

\* a segment with a category at exactly 0.1 was selected, and others kept
C9_Witness ==
    /\ relevant # None
    /\ LET key == case_insensitive_lookup(Val(attrs).sector, Keys(Segmented(qual_stats))) IN
       /\ key # None
       /\ Get(Segmented(qual_stats), Val(key)).loss_risks # None
       /\ \E i \in 1..Len(Val(Get(Segmented(qual_stats), Val(key)).loss_risks)) :
             Val(Get(Segmented(qual_stats), Val(key)).loss_risks)[i].frequency
                = FrequencyThreshold
    /\ Val(relevant).qualitative_insights.loss_risks # None
    /\ Val(Val(relevant).qualitative_insights.loss_risks) # << >>

\* C10: with a combination key whose product name contains an underscore
\* (product "Mg_S", sector "Fin") and the highest win rate of its sector, a
\* combination lookup for that sector identifies the entry as that product
\* in that sector and treats it as one of the sector's combinations: it is
\* among the combinations returned.
C10_UnderscoreProductCombination ==
    (/\ relevant # None
     /\ SectorKey(Val(attrs), stats) = Some(Fin)
     /\ ProductKey(Val(attrs), stats) # None
     /\ HasKey(stats.product_sector_win_rates, JoinUnderscore(Some(MgS), Some(Fin)))) =>
        /\ \E i \in 1..Len(SectorCombos(Some(Fin), stats.product_sector_win_rates)) :
              SectorCombos(Some(Fin), stats.product_sector_win_rates)[i].prod = MgS
        /\ Val(relevant).product_sector # None
        /\ HasKey(Val(Val(relevant).product_sector), JoinUnderscore(Some(MgS), Some(Fin)))

\* C11: when no sector is supplied, or the supplied sector resolves to no key,
\* the output of the stats assembly has no product_sector entry; an output
\* that has one comes from a request whose sector and product both resolve.
C11_CombinationsNeedSector ==
    relevant # None =>
        LET sector_key == SectorKey(Val(attrs), stats)
            product_key == ProductKey(Val(attrs), stats) IN
        /\ sector_key = None => Val(relevant).product_sector = None
        /\ Val(relevant).product_sector # None =>
              sector_key # None /\ product_key # None

\* the largest frequency among the categories of risks
MaxFrequency(risks) ==
    CHOOSE f \in {risks[i].frequency : i \in 1..Len(risks)} :
        \A i \in 1..Len(risks) : risks[i].frequency <= f

\* the uplift call was made and float() raised ValueError on its reply
UnparsedReply ==
    /\ uplift_reply # None
    /\ ParseFloat(StripPercent(Val(uplift_reply))) = None

\* C12: when the reply of the uplift call does not parse as a number once its
\* "%" characters are stripped, the stats assembly completes with
\* qual_lift_estimate = (1 - top_risk_frequency) * 10, no simulation marked
\* from_qual, the other simulations as they are built and sorted without it,
\* and the request returns success.
C12_UnparsedUpliftFallsBack ==
    UnparsedReply =>
        /\ pc \in {"assembled", "returned"}
        /\ relevant # None
        /\ LET rel == Val(relevant)
               risks == Val(rel.qualitative_insights.loss_risks) IN
           /\ rel.qual_lift_estimate = Some(100 - MaxFrequency(risks))
           /\ \A i \in 1..Len(rel.simulations) : ~rel.simulations[i].from_qual
           /\ rel.simulations = SortSimulations(BuiltSimulations(Val(attrs), stats))
        /\ pc = "returned" =>
              /\ Val(result).success
              /\ Val(result).relevant_stats = relevant

C12_Witness ==
    /\ UnparsedReply
    /\ pc = "returned"
    /\ Val(uplift_reply) = <<"H", "i", "g", "h">>
    /\ Val(Val(result).relevant_stats).simulations # << >>

\* the table a lift-based simulation takes its lift from
TableOfKind(kind) ==
    CASE kind = "Baseline adjusted for sector" -> stats.account_sector
      [] kind = "Switch to" -> stats.product
      [] kind = "Assign to" -> stats.sales_rep

\* C13: every simulation of the output that is built from a lift (sector,
\* product, rep) has uplift_percent = (lift - 1) * 100 and estimated_win_rate
\* = overall win rate * lift, lift being the lift the table records for the
\* key the simulation names.
C13_LiftSimulations ==
    relevant # None =>
        LET sims == Val(relevant).simulations IN
        \A i \in 1..Len(sims) :
            ~sims[i].from_qual =>
                LET table == TableOfKind(sims[i].description.kind)
                    name == sims[i].description.name IN
                /\ HasKey(table, name)
                /\ sims[i].uplift_percent = (Get(table, name).lift - 100) * 10
                /\ sims[i].estimated_win_rate =
                      stats.overall_win_rate * Get(table, name).lift

C13_Witness ==
    /\ pc = "returned"
    /\ Val(result).success
    /\ LET sims == Val(Val(result).relevant_stats).simulations IN
       /\ \E i \in 1..Len(sims) :
             /\ sims[i].description.kind = "Switch to"
             /\ sims[i].uplift_percent = 250
             /\ sims[i].estimated_win_rate = 60 * 125
       /\ \E i \in 1..Len(sims) :
             /\ sims[i].description.kind = "Baseline adjusted for sector"
             /\ sims[i].uplift_percent < 0
       /\ \E i \in 1..Len(sims) : sims[i].description.kind = "Assign to"

(***************************************************************************)
(* The REST service, src/SalesAdvisorService/api.py: POST /api/v1/analyze  *)
(* with its API-key check and its rate limit, around the engine's          *)
(* analyze_opportunity with the external calls it makes (chat completion,  *)
(* embedding, vector search), each of which may raise.  The handler is an  *)
(* async function that calls the engine without awaiting, so one request   *)
(* is handled from start to end before the next one starts; it is written  *)
(* here as the steps of that one request.                                  *)
(***************************************************************************)
RATE_LIMIT_REQUESTS == 10

RATE_LIMIT_WINDOW == 3600

\* requests handled in a run in which the rate limit is exercised
MaxRateRequests == 12

\* the clock readings of a run: multiples of Tick up to MaxClock
MaxClock == 3600

Ticks == {1800}

\* values of the X-API-Key header (None: no header)
KeyStrings == {"k1", "k2", "bad"}

ConfiguredKeys == {"k1", "k2"}

\* raise HTTPException(status_code, detail)
HTTPException(status_code, detail) ==
    [status_code |-> status_code, detail |-> Some(detail), body |-> None]

\* api_key accepts every key that is present
NoKeyIsInvalid(api_key, valid_keys) == FALSE

\* line 96: api_key not in valid_keys
InvalidKey(api_key, valid_keys) == api_key \notin valid_keys

\* verify_api_key, lines 79-103: the exception it raises, None when it
\* returns the key; keys is API_KEYS
verify_api_key(api_key, keys) ==
    IF api_key = None
    THEN Some(HTTPException(401, "Missing API key"))
    ELSE IF keys = None
    THEN Some(HTTPException(500, "API key configuration error"))
    ELSE IF InvalidKey(Val(api_key), Val(keys))
    THEN Some(HTTPException(401, "Invalid API key provided"))
    ELSE None

\* no recorded time ever leaves the record
RequestsNeverExpire(times, t) == times

\* lines 111-114: the recorded times younger than the window
RecentRequests(times, t) ==
    SelectSeq(times, LAMBDA req_time : t - req_time < RATE_LIMIT_WINDOW)

\* len(...) > RATE_LIMIT_REQUESTS: one request too many passes
LimitExceeded(n) == n > RATE_LIMIT_REQUESTS

\* line 117: len(rate_limit_store[api_key]) >= RATE_LIMIT_REQUESTS
LimitReached(n) == n >= RATE_LIMIT_REQUESTS

\* one external call of the request and whether it returned
Call(name, ok) == [call |-> name, ok |-> ok]

\* the calls of steps 3 and 5, lines 193-228, in the order they are made
LaterCalls == <<"embed_won", "search_won", "embed_lost", "search_lost", "chat_recommend">>

\* {} : a dict without keys
EmptyDict == << >>

\* _extract_attributes, lines 387-450: a reply that is not JSON gives {}
extract_attributes(reply) ==
    IF reply.kind = "json" THEN reply.value ELSE EmptyDict

\* only the dict without keys counts as a failed extraction
ExtractionFailedEmptyOnly(extracted_attrs) == DOMAIN extracted_attrs = {}

\* line 176: not extracted_attrs or all(v is None for v in extracted_attrs.values())
ExtractionFailed(extracted_attrs) ==
    \/ DOMAIN extracted_attrs = {}
    \/ \A f \in DOMAIN extracted_attrs : extracted_attrs[f] = None

\* the early return, lines 178-186
ExtractionFailure(extracted_attrs) ==
    [success |-> FALSE, error_message |-> Some("Failed to extract attributes"),
     extracted_attributes |-> Some(extracted_attrs),
     relevant_stats |-> None, recommendation |-> None,
     won_matches |-> None, lost_matches |-> None]

\* a bare except: every exception of the uplift call is swallowed
UpliftExceptCatchesAll(exception) == TRUE

\* line 761: except ValueError
UpliftExceptCatches(exception) == exception = "ValueError"

\* the exception analyze_opportunity catches at line 244
EngineError ==
    IF calls # << >> /\ ~calls[Len(calls)].ok
    THEN "APIError"
    ELSE RaisedException(Val(attrs), stats)

\* models.py lines 74-85: the fields of OpportunityResponse declared Field(...)
OpportunityResponseRequired ==
    {"recommendation", "extracted_attributes", "win_probability_improvements",
     "similar_won_deals", "similar_lost_deals", "statistics"}

\* transform_engine_result, lines 351-426: the OpportunityResponse built at
\* lines 416-422, None when its validation raises (lines 424-426: ValueError)
transform_engine_result(r) ==
    LET built == [success |-> TRUE,
                  recommendation |-> Val(r.recommendation),
                  extracted_attributes |-> Val(r.extracted_attributes),
                  similar_won_deals |-> Val(r.won_matches),
                  similar_lost_deals |-> Val(r.lost_matches)]
    IN IF OpportunityResponseRequired \subseteq DOMAIN built
       THEN Some(built)
       ELSE None

(***************************************************************************)
(* Inputs of the service.                                                  *)
(***************************************************************************)
NoAttrs == [product |-> None, sector |-> None, region |-> None, current_rep |-> None]

ServiceAttrs ==
    { [product |-> Some(<<"g", "x">>), sector |-> Some(<<"f", "i", "n">>),
       region |-> Some(<<"n">>), current_rep |-> None],
      [product |-> Some(<<"g", "x">>), sector |-> None,
       region |-> Some(<<"n">>), current_rep |-> None] }

\* what the extraction chat call does: it raises, or returns text
ExtractionReplies ==
    { [kind |-> "raises", value |-> EmptyDict],
      [kind |-> "text", value |-> EmptyDict],
      [kind |-> "json", value |-> EmptyDict],
      [kind |-> "json", value |-> NoAttrs] }
    \cup { [kind |-> "json", value |-> a] : a \in ServiceAttrs }

\* what the uplift chat call does
UpliftOutcomes ==
    { [raises |-> TRUE, exception |-> "APIError", text |-> << >>],
      [raises |-> FALSE, exception |-> "none", text |-> <<"2", "5">>],
      [raises |-> FALSE, exception |-> "none", text |-> <<"H", "i", "g", "h">>] }

\* which of LaterCalls raises: 0 when none does
LaterFailures == 0..Len(LaterCalls)

ServiceStatsTables ==
    { st \in StatsTables : /\ Len(st.product) = 5
                           /\ Len(st.account_sector) = 4
                           /\ Len(st.account_region) = 2
                           /\ Len(st.sales_rep) = 1
                           /\ st.product_sector_win_rates # << >> }

(***************************************************************************)
(* One request through the service.                                        *)
(***************************************************************************)
engine == <<stats, qual_stats, attrs, uplift_reply, relevant, result, llm_calls>>

\* time passes between requests
Tick ==
    /\ pc = "idle"
    /\ \E d \in Ticks :
        /\ clock + d <= MaxClock
        /\ clock' = clock + d
    /\ UNCHANGED <<engine, pc, served, earlier, lookup, apart, calls, API_KEYS,
                   rate_limit_store, passed, request, response>>

\* lines 198-245: the dependency verify_api_key, then check_rate_limit
Receive(pool, max) ==
    /\ pc = "idle"
    /\ served < max
    /\ \E api_key \in pool :
        LET refused == verify_api_key(api_key, API_KEYS)
            key == Val(api_key)
            recent == RecentRequests(rate_limit_store[key], clock) IN
        /\ request' = Some([api_key |-> api_key, at |-> clock])
        /\ IF refused # None
           THEN /\ response' = refused
                /\ pc' = "responded"
                /\ UNCHANGED <<rate_limit_store, passed>>
           ELSE IF LimitReached(Len(recent))
           THEN /\ rate_limit_store' = [rate_limit_store EXCEPT ![key] = recent]
                /\ response' = Some(HTTPException(429, "Rate limit exceeded"))
                /\ pc' = "responded"
                /\ UNCHANGED passed
           ELSE /\ rate_limit_store' =
                      [rate_limit_store EXCEPT ![key] = Append(recent, clock)]
                /\ passed' = [passed EXCEPT ![key] = Append(@, clock)]
                /\ response' = None
                /\ pc' = "accepted"
    /\ UNCHANGED <<engine, served, earlier, lookup, apart, calls, API_KEYS, clock>>

\* engine Step 1, lines 170-186: the extraction call and the early return
CallExtract(replies) ==
    /\ pc = "accepted"
    /\ \E reply \in replies :
        IF reply.kind = "raises"
        THEN /\ calls' = <<Call("chat_extract", FALSE)>>
             /\ pc' = "raised"
             /\ UNCHANGED <<attrs, result>>
        ELSE LET extracted_attrs == extract_attributes(reply) IN
             /\ calls' = <<Call("chat_extract", TRUE)>>
             /\ attrs' = Some(extracted_attrs)
             /\ IF ExtractionFailed(extracted_attrs)
                THEN /\ result' = Some(ExtractionFailure(extracted_attrs))
                     /\ pc' = "returned"
                ELSE /\ UNCHANGED result
                     /\ pc' = "extracted"
    /\ UNCHANGED <<stats, qual_stats, uplift_reply, relevant, llm_calls, served,
                   earlier, lookup, apart, API_KEYS, clock, rate_limit_store, passed,
                   request, response>>

\* engine Step 2, line 190: _get_relevant_stats with its uplift call
CallAssemble(outcomes) ==
    /\ pc = "extracted"
    /\ \E o \in outcomes :
        LET a == Val(attrs)
            called == UpliftCallNeeded(SelectInsights(a.sector, qual_stats))
            reply == IF o.raises THEN << >> ELSE o.text IN
        IF RaisedException(a, stats) # "none"
        THEN /\ pc' = "raised"
             /\ relevant' = None
             /\ uplift_reply' = None
             /\ llm_calls' = << >>
             /\ UNCHANGED calls
        ELSE IF called /\ o.raises /\ ~UpliftExceptCatches(o.exception)
        THEN /\ pc' = "raised"
             /\ relevant' = None
             /\ uplift_reply' = None
             /\ llm_calls' = UpliftCalls(SelectInsights(a.sector, qual_stats),
                                        SectorKey(a, stats), reply)
             /\ calls' = Append(calls, Call("chat_uplift", FALSE))
        ELSE /\ pc' = "assembled"
             /\ relevant' = Some(get_relevant_stats(a, stats, qual_stats, reply))
             /\ uplift_reply' = IF called /\ ~o.raises THEN Some(reply) ELSE None
             /\ llm_calls' = UpliftCalls(SelectInsights(a.sector, qual_stats),
                                        SectorKey(a, stats), reply)
             /\ calls' = IF called
                         THEN Append(calls, Call("chat_uplift", ~o.raises))
                         ELSE calls
    /\ qual_stats' = IF RaisedException(Val(attrs), stats) # "none" THEN qual_stats
                     ELSE QualStatsAfter(qual_stats, Val(attrs).sector)
    /\ UNCHANGED <<stats, attrs, result, served, earlier, lookup, apart,
                   API_KEYS, clock, rate_limit_store, passed, request, response>>

\* engine Steps 3-5, lines 193-242: two searches (an embedding and a vector
\* search each), the recommendation call, the success result
CallRecommend(failures) ==
    /\ pc = "assembled"
    /\ \E f \in failures :
        LET made == IF f = 0 THEN Len(LaterCalls) ELSE f IN
        /\ calls' = calls \o [i \in 1..made |-> Call(LaterCalls[i], i # f)]
        /\ IF f = 0
           THEN /\ result' = Some(Success(Val(attrs), Val(relevant)))
                /\ pc' = "returned"
           ELSE /\ UNCHANGED result
                /\ pc' = "raised"
    /\ UNCHANGED <<stats, qual_stats, attrs, uplift_reply, relevant, llm_calls,
                   served, earlier, lookup, apart, API_KEYS, clock, rate_limit_store,
                   passed, request, response>>

\* engine lines 244-255: the exception becomes a failure result
CatchException ==
    /\ pc = "raised"
    /\ result' = Some(Failure(EngineError))
    /\ pc' = "returned"
    /\ UNCHANGED <<stats, qual_stats, attrs, uplift_reply, relevant, llm_calls,
                   served, earlier, lookup, apart, service>>

\* api.py lines 247-346: the engine's result becomes the HTTP response
Respond ==
    /\ pc = "returned"
    /\ LET r == Val(result)
           transformed == transform_engine_result(r) IN
       response' =
           IF ~r.success
           THEN Some(HTTPException(400, Val(r.error_message)))
           ELSE IF transformed = None
           THEN Some(HTTPException(500, "An error occurred during analysis"))
           ELSE Some([status_code |-> 200, detail |-> None, body |-> transformed])
    /\ pc' = "responded"
    /\ UNCHANGED <<engine, served, earlier, lookup, apart, calls, API_KEYS, clock,
                   rate_limit_store, passed, request>>

\* the response is sent; what the request built is discarded
Done ==
    /\ pc = "responded"
    /\ pc' = "idle"
    /\ attrs' = None
    /\ uplift_reply' = None
    /\ relevant' = None
    /\ result' = None
    /\ llm_calls' = << >>
    /\ calls' = << >>
    /\ request' = None
    /\ response' = None
    /\ served' = served + 1
    /\ UNCHANGED <<stats, qual_stats, earlier, lookup, apart, API_KEYS, clock,
                   rate_limit_store, passed>>

\* the service after startup: tables loaded, no request yet
ServiceStarted ==
    /\ stats \in ServiceStatsTables
    /\ qual_stats \in QualTables
    /\ NoRequest
    /\ lookup = None
    /\ NoApart
    /\ calls = << >>
    /\ clock = 0
    /\ rate_limit_store = [k \in KeyStrings |-> << >>]
    /\ passed = [k \in KeyStrings |-> << >>]
    /\ request = None
    /\ response = None

InitApi ==
    /\ ServiceStarted
    /\ API_KEYS \in {None, Some(ConfiguredKeys)}

PostAnalyze == Receive({None, Some("k1"), Some("bad")}, MaxRequests)

ExtractAttributes == CallExtract(ExtractionReplies)

GetStats == CallAssemble(UpliftOutcomes)

SearchAndRecommend == CallRecommend(LaterFailures)

NextApi ==
    \/ Tick
    \/ PostAnalyze
    \/ ExtractAttributes
    \/ GetStats
    \/ SearchAndRecommend
    \/ CatchException
    \/ Respond
    \/ Done

SpecApi == InitApi /\ [][NextApi]_vars

(***************************************************************************)
(* The same service under load: two configured keys, many requests, each   *)
(* of them a description from which nothing is extracted.                  *)
(***************************************************************************)
InitRate ==
    /\ ServiceStarted
    /\ API_KEYS = Some(ConfiguredKeys)

PostAnalyzeOften == Receive({Some("k1"), Some("k2")}, MaxRateRequests)

ExtractNothing == CallExtract({[kind |-> "text", value |-> EmptyDict]})

NextRate ==
    \/ Tick
    \/ PostAnalyzeOften
    \/ ExtractNothing
    \/ Respond
    \/ Done

SpecRate == InitRate /\ [][NextRate]_vars

\* how many requests of key k passed the rate-limit check at a time t with
\* from <= t < from + RATE_LIMIT_WINDOW
PassedInWindow(k, from) ==
    Cardinality({ j \in 1..Len(passed[k]) :
                    from <= passed[k][j] /\ passed[k][j] < from + RATE_LIMIT_WINDOW })

\* how many requests of key k passed the check less than a window before t
PassedBefore(k, t) ==
    Cardinality({ j \in 1..Len(passed[k]) : t - passed[k][j] < RATE_LIMIT_WINDOW })

\* C14: for every API key and every window of 3600 seconds, at most 10
\* requests of the key pass the rate-limit check (a window holding the most
\* passes can be taken to start at one of them); a request that has passed is
\* among those counted; a request answered 429 came when 10 requests of its
\* key had passed within the window, and the engine is not invoked for it.
C14_RateLimit ==
    /\ \A k \in KeyStrings : \A j \in 1..Len(passed[k]) :
          PassedInWindow(k, passed[k][j]) <= 10
    /\ request # None =>
          LET k == Val(Val(request).api_key) IN
          IF response # None /\ Val(response).status_code = 429
          THEN /\ PassedBefore(k, clock) = 10
               /\ pc = "responded"
               /\ calls = << >>
               /\ attrs = None
               /\ result = None
          ELSE /\ passed[k] # << >>
               /\ passed[k][Len(passed[k])] = Val(request).at
               /\ PassedBefore(k, clock) <= 10

C14_Witness ==
    /\ request # None
    /\ Val(request).api_key = Some("k1")
    /\ response # None
    /\ Val(response).status_code = 429
    /\ clock = 3600
    /\ Len(passed["k1"]) = 11
    /\ passed["k1"][1] = 0

\* C15: whenever the engine returns success = true, the request is answered
\* 200 with a body carrying success = true, the recommendation, the extracted
\* attributes, win_probability_improvements, the similar won and lost deals,
\* and statistics.
C15_SuccessAnswered ==
    (pc = "responded" /\ result # None /\ Val(result).success) =>
        /\ Val(response).status_code = 200
        /\ Val(response).body # None
        /\ LET body == Val(Val(response).body) IN
           /\ {"success", "recommendation", "extracted_attributes",
               "win_probability_improvements", "similar_won_deals",
               "similar_lost_deals", "statistics"} \subseteq DOMAIN body
           /\ body.success
           /\ body.recommendation = Val(Val(result).recommendation)

\* the request carries no key, or a key that is not among the configured ones
Unauthorized ==
    /\ request # None
    /\ \/ Val(request).api_key = None
       \/ API_KEYS = None
       \/ Val(Val(request).api_key) \notin Val(API_KEYS)

\* the request in progress is answered 401 and nothing was done for it
Answered401 ==
    /\ pc = "responded"
    /\ response # None
    /\ Val(response).status_code = 401
    /\ calls = << >>
    /\ attrs = None
    /\ result = None

\* C16 as stated: a request whose API key is missing or is not in the
\* configured key set is answered 401, the engine is not invoked, and the
\* step that receives it leaves every key's rate-limit record as it was.
C16_Unauthorized401 ==
    /\ [](Unauthorized => Answered401)
    /\ [][(request = None /\ Unauthorized') =>
             rate_limit_store' = rate_limit_store]_vars

\* the request carries no key, or API_KEYS is set and does not hold its key
UnauthorizedConfigured ==
    /\ request # None
    /\ \/ Val(request).api_key = None
       \/ API_KEYS # None /\ Val(Val(request).api_key) \notin Val(API_KEYS)

\* the request carries a key while API_KEYS is unset or empty
Unconfigured ==
    /\ request # None
    /\ Val(request).api_key # None
    /\ API_KEYS = None

\* C16 amended: a request whose API key is missing, or is not in the key set
\* while API_KEYS is set, is answered 401; a request carrying a key while
\* API_KEYS is unset or empty is answered 500; in both cases the engine is
\* not invoked and no key's rate-limit record changes.
C16_UnauthorizedRefused ==
    /\ [](UnauthorizedConfigured => Answered401)
    /\ [](Unconfigured =>
            /\ pc = "responded"
            /\ response # None
            /\ Val(response).status_code = 500
            /\ calls = << >>
            /\ attrs = None
            /\ result = None)
    /\ [][(request = None /\ (UnauthorizedConfigured \/ Unconfigured)') =>
             rate_limit_store' = rate_limit_store]_vars

C16_Witness ==
    /\ UnauthorizedConfigured
    /\ Val(request).api_key = Some("bad")
    /\ Val(response).status_code = 401
    /\ rate_limit_store["k1"] # << >>
    /\ rate_limit_store["bad"] = << >>

\* the extraction returned a dict without keys or with None for every key
NothingExtracted ==
    /\ attrs # None
    /\ \/ DOMAIN Val(attrs) = {}
       \/ \A f \in DOMAIN Val(attrs) : Val(attrs)[f] = None

\* C17: when the extraction yields a dict without keys (a reply that is not
\* JSON included) or only None values, analyze_opportunity returns success =
\* false with the extraction-failure message, relevant_stats, recommendation,
\* won_matches and lost_matches None, having made no call after the
\* extraction call and assembled no statistics; the service answers the
\* request with an error response (status 400 carrying the message).
C17_ExtractionFailure ==
    NothingExtracted =>
        /\ pc \in {"returned", "responded"}
        /\ result # None
        /\ ~Val(result).success
        /\ Val(result).error_message = Some("Failed to extract attributes")
        /\ Val(result).extracted_attributes = attrs
        /\ Val(result).relevant_stats = None
        /\ Val(result).recommendation = None
        /\ Val(result).won_matches = None
        /\ Val(result).lost_matches = None
        /\ calls = <<[call |-> "chat_extract", ok |-> TRUE]>>
        /\ relevant = None
        /\ llm_calls = << >>
        /\ pc = "responded" =>
              /\ response # None
              /\ Val(response).status_code = 400
              /\ Val(response).detail = Val(result).error_message
              /\ Val(response).body = None

C17_Witness ==
    /\ NothingExtracted
    /\ DOMAIN Val(attrs) # {}
    /\ pc = "responded"
    /\ Val(response).status_code = 400

\* some external call of the request in progress raised
SomeCallFailed == \E i \in 1..Len(calls) : ~calls[i].ok

SameAsFirstRequest ==
    /\ pc = "returned"
    /\ earlier # None
    /\ Val(earlier).after = 0
    /\ Val(earlier).attrs = attrs
    /\ Val(earlier).uplift_reply = uplift_reply

EndsWith(s, suffix) ==
    /\ Len(s) > Len(suffix)
    /\ SubSeq(s, Len(s) - Len(suffix) + 1, Len(s)) = suffix

\* the entries of the combination table recorded for the sector: the keys
\* "<product>_<sector>", the sector compared without regard to case
EntriesOfSector(sector_key, combos) ==
    { i \in 1..Len(combos) :
        EndsWith(Lower(combos[i].key), Lower(<<"_">> \o sector_key)) }

\* the product of a key "<product>_<sector>"
ProductOfKey(key, sector_key) == SubSeq(key, 1, Len(key) - Len(sector_key) - 1)

\* C20: when product and sector both resolve, the entries of product_sector
\* other than the matched product's own are min(3, n) of the n entries the
\* combination table records for that sector under other products: each has
\* a key of the table with that key's win rate, none left out has a higher
\* win rate, they are in descending order of win rate, and none of them is
\* of the matched product.
C20_CombinationAlternatives ==
    (/\ relevant # None
     /\ SectorKey(Val(attrs), stats) # None
     /\ ProductKey(Val(attrs), stats) # None) =>
        LET sector_key == Val(SectorKey(Val(attrs), stats))
            product_key == Val(ProductKey(Val(attrs), stats))
            combos == stats.product_sector_win_rates
            others == { i \in EntriesOfSector(sector_key, combos) :
                          Lower(ProductOfKey(combos[i].key, sector_key))
                             # Lower(product_key) }
            ps == Val(Val(relevant).product_sector)
            alts == { j \in 1..Len(ps) :
                        Lower(ProductOfKey(ps[j].key, sector_key)) # Lower(product_key) }
        IN /\ Val(relevant).product_sector # None
           /\ Cardinality(alts) = Min(3, Cardinality(others))
           /\ \A j \in alts : \E i \in others :
                 combos[i].key = ps[j].key /\ combos[i].value = ps[j].value
           /\ \A j \in alts : \A i \in others :
                 ~HasKey(ps, combos[i].key) => combos[i].value <= ps[j].value
           /\ \A j, k \in alts : j < k => ps[j].value >= ps[k].value
           /\ \A j \in (1..Len(ps)) \ alts : j = 1

\* a frequency is a share of the sector's deals: between 0 and 1
IsShare(frequency) == 0 <= frequency /\ frequency <= 100

\* the categories returned for one type are categories of the segment, each
\* with a frequency that is a share and exceeds the threshold
ReturnedShares(returned, segment) ==
    \A i \in 1..Len(returned) :
        /\ HasKey(segment, returned[i].key)
        /\ IsShare(returned[i].frequency)
        /\ returned[i].frequency > FrequencyThreshold

\* C21: when the sector resolves in the segment data of the qualitative
\* table, each returned category's frequency is its count in that sector
\* divided by the number of won deals (win_drivers) or lost deals
\* (loss_risks) recorded for that sector, hence lies in [0,1], and the
\* categories returned are those of the segment whose frequency exceeds 0.1.
C21_SegmentFrequencies ==
    (/\ relevant # None
     /\ case_insensitive_lookup(Val(attrs).sector, Keys(Segmented(qual_stats))) # None) =>
        LET seg == Get(Segmented(qual_stats),
                       Val(case_insensitive_lookup(Val(attrs).sector,
                                                   Keys(Segmented(qual_stats)))))
            out == Val(relevant).qualitative_insights
        IN /\ (out.win_drivers # None) = (seg.win_drivers # None)
           /\ (out.loss_risks # None) = (seg.loss_risks # None)
           /\ out.win_drivers # None =>
                 ReturnedShares(Val(out.win_drivers), Val(seg.win_drivers))
           /\ out.loss_risks # None =>
                 ReturnedShares(Val(out.loss_risks), Val(seg.loss_risks))

\* returned is the (up to) three categories of highest frequency among the
\* categories of overall that exceed the threshold
TopThreeAbove(returned, overall) ==
    LET above == { i \in 1..Len(overall) : overall[i].frequency > FrequencyThreshold } IN
    /\ Len(returned) = Min(3, Cardinality(above))
    /\ \A i \in 1..Len(returned) :
          \E j \in above : overall[j] = returned[i]
    /\ \A i, k \in 1..Len(returned) : i # k => returned[i].key # returned[k].key
    /\ \A j \in above :
          ~HasKey(returned, overall[j].key) =>
              \A i \in 1..Len(returned) : overall[j].frequency <= returned[i].frequency
    /\ above # {} => returned # << >>

\* C22: when the sector is absent or does not resolve in the segment data,
\* win_drivers and loss_risks are each the (up to) three overall categories
\* of highest frequency among those with frequency > 0.1; the selection does
\* not raise (both are present whenever the assembly got as far as the
\* selection), and each is non-empty whenever an overall category exceeds 0.1.
C22_OverallFallback ==
    (/\ pc = "assembled"
     /\ case_insensitive_lookup(Val(attrs).sector, Keys(Segmented(qual_stats))) = None) =>
        /\ relevant # None
        /\ Val(relevant).qualitative_insights.win_drivers # None
        /\ Val(relevant).qualitative_insights.loss_risks # None
        /\ TopThreeAbove(Val(Val(relevant).qualitative_insights.win_drivers),
                         qual_stats.win_drivers)
        /\ TopThreeAbove(Val(Val(relevant).qualitative_insights.loss_risks),
                         qual_stats.loss_risks)

\* a sector that resolves in no segment, with more than three overall
\* categories above the threshold: three are returned
C22_Witness ==
    /\ pc = "assembled"
    /\ case_insensitive_lookup(Val(attrs).sector, Keys(Segmented(qual_stats))) = None
    /\ Val(attrs).sector # None
    /\ Cardinality({ i \in 1..Len(qual_stats.win_drivers) :
                       qual_stats.win_drivers[i].frequency > FrequencyThreshold }) > 3
    /\ Len(Val(Val(relevant).qualitative_insights.win_drivers)) = 3

\* C23: during one stats assembly the uplift-estimation chat call is issued
\* exactly once when the selected loss_risks are non-empty, for a loss-risk
\* category of highest frequency among them, and not at all when they are
\* empty or absent; a reply that does not parse does not lead to another call.
C23_OneUpliftCall ==
    pc = "assembled" =>
        LET risks == Val(relevant).qualitative_insights.loss_risks IN
        IF risks # None /\ Val(risks) # << >>
        THEN /\ Len(llm_calls) = 1
             /\ \E i \in 1..Len(Val(risks)) :
                   /\ Val(risks)[i].key = llm_calls[1].top_risk
                   /\ Val(risks)[i].frequency = llm_calls[1].top_risk_freq
             /\ \A j \in 1..Len(Val(risks)) :
                   Val(risks)[j].frequency <= llm_calls[1].top_risk_freq
        ELSE llm_calls = << >>

\* the reply of the one call did not parse, and no second call was made
C23_Witness ==
    /\ pc = "assembled"
    /\ uplift_reply # None
    /\ QualUplift(Val(uplift_reply)) = None
    /\ Len(Val(Val(relevant).qualitative_insights.loss_risks)) > 1
    /\ Len(llm_calls) = 1

\* the simulations of one kind, as positions of the list
SimsOfKind(sims, kind) == { i \in 1..Len(sims) : sims[i].description.kind = kind }

\* C24: the simulations list consists of exactly one "Baseline adjusted for
\* {sector} sector" entry if and only if the sector resolved; one "Switch to
\* {p}" entry for each key p of the output product set; one "Assign to {r}"
\* entry for each of the min(5, number of reps) reps of highest lift, whether
\* or not a current rep was supplied or resolved; at most one from_qual
\* entry; and nothing else.
C24_SimulationsList ==
    pc = "assembled" =>
        LET sims == Val(relevant).simulations
            products == Val(relevant).products
            reps == stats.sales_rep
            sector_key == SectorKey(Val(attrs), stats)
            baseline == SimsOfKind(sims, "Baseline adjusted for sector")
            switch == SimsOfKind(sims, "Switch to")
            assign == SimsOfKind(sims, "Assign to")
            qual == { i \in 1..Len(sims) : sims[i].from_qual }
        IN /\ Cardinality(baseline) = (IF sector_key # None THEN 1 ELSE 0)
           /\ \A i \in baseline : sims[i].description.name = Val(sector_key)
           /\ Cardinality(switch) = Len(products)
           /\ \A j \in 1..Len(products) :
                 Cardinality({ i \in switch : sims[i].description.name = products[j].key }) = 1
           /\ Cardinality(assign) = Min(5, Len(reps))
           /\ \A i \in assign :
                 /\ HasKey(reps, sims[i].description.name)
                 /\ \A k \in assign : k # i =>
                       sims[k].description.name # sims[i].description.name
                 /\ \A r \in 1..Len(reps) :
                       (\A k \in assign : sims[k].description.name # reps[r].key) =>
                           reps[r].lift <= Get(reps, sims[i].description.name).lift
           /\ Cardinality(qual) <= 1
           /\ qual = SimsOfKind(sims, "Address top qual risk")
           /\ Len(sims) = Cardinality(baseline) + Cardinality(switch)
                             + Cardinality(assign) + Cardinality(qual)

\* no current rep supplied, six reps on record, a resolved sector and a
\* parsed uplift: five "Assign to", the baseline and the from_qual entry
C24_Witness ==
    /\ pc = "assembled"
    /\ Val(attrs).current_rep = None
    /\ Len(stats.sales_rep) > 5
    /\ SectorKey(Val(attrs), stats) # None
    /\ Cardinality(SimsOfKind(Val(relevant).simulations, "Assign to")) = 5
    /\ Cardinality(SimsOfKind(Val(relevant).simulations, "Baseline adjusted for sector")) = 1
    /\ \E i \in 1..Len(Val(relevant).simulations) : Val(relevant).simulations[i].from_qual

\* the recommendation is a simulation built for a rep whose sample_size is
\* strictly greater than 200
ForWellSampledRep(recommendation) ==
    /\ recommendation.kind = "Assign to"
    /\ \E r \in 1..Len(stats.sales_rep) :
          /\ stats.sales_rep[r].key = recommendation.name
          /\ stats.sales_rep[r].sample_size > 200

C25_HighReached ==
    /\ relevant # None
    /\ \E i, j \in 1..Len(Val(relevant).win_probability_improvements) :
          LET imp == Val(relevant).win_probability_improvements[i]
              other == Val(relevant).win_probability_improvements[j] IN
          /\ imp.recommendation.kind = "Assign to"
          /\ Get(stats.sales_rep, imp.recommendation.name).sample_size = 201
          /\ imp.confidence = "High"
          /\ other.recommendation.kind # "Assign to"
          /\ other.confidence = "Medium"

\* the keys of the output product set that have no entry in the
\* avg_revenue_by_product table
ProductsWithoutRevenue ==
    LET products == DimensionStats(ProductKey(Val(attrs), stats), stats.product) IN
    { products[i].key : i \in { j \in 1..Len(products) :
                                  ~HasKey(stats.avg_revenue_by_product, products[j].key) } }

\* C26: for a product of the output product set that has no entry in the
\* avg_revenue_by_product table, stats assembly still completes, and that
\* product's "Switch to" simulation carries revenue_estimate = 0.
C26_RevenueDefaultsToZero ==
    (/\ pc \in {"assembled", "raised"}
     /\ ProductsWithoutRevenue # {}) =>
        /\ pc = "assembled"
        /\ relevant # None
        /\ \A p \in ProductsWithoutRevenue :
              \E i \in 1..Len(Val(relevant).simulations) :
                  /\ Val(relevant).simulations[i].description
                        = [kind |-> "Switch to", name |-> p]
                  /\ Val(relevant).simulations[i].revenue_estimate = Some(0)

(***************************************************************************)
(* _extract_attributes on its own, lines 387-450: the reply of the         *)
(* extraction call is parsed, then the validation pass of lines 426-439    *)
(* compares the extracted price and revenue with the words of the prompt.  *)
(***************************************************************************)
\* sub in s
Contains(s, sub) ==
    \E i \in 0..(Len(s) - Len(sub)) : SubSeq(s, i + 1, i + Len(sub)) = sub

Dollar == <<"$">>

\* line 428
price_keywords ==
    { Dollar, <<"p", "r", "i", "c", "e">>, <<"c", "o", "s", "t">>,
      <<"d", "o", "l", "l", "a", "r">>, <<"u", "s", "d">> }

\* line 435
revenue_keywords ==
    { <<"r", "e", "v", "e", "n", "u", "e">>,
      <<"e", "x", "p", "e", "c", "t", "e", "d">>,
      <<"f", "o", "r", "e", "c", "a", "s", "t">> }

\* any(keyword in prompt.lower() for keyword in keywords)
AnyKeyword(keywords, prompt) == \E keyword \in keywords : Contains(Lower(prompt), keyword)

\* the revenue is taken as mentioned by a revenue keyword alone
RevenueKeywordMentioned(prompt) == AnyKeyword(revenue_keywords, prompt)

\* lines 436-437: the revenue is left alone when a revenue keyword is in the
\* prompt, and also when "$" is
RevenueMentioned(prompt) ==
    AnyKeyword(revenue_keywords, prompt) \/ Contains(prompt, Dollar)

\* lines 426-439: the validation pass over the parsed reply
validate_extracted(extracted, prompt) ==
    [extracted EXCEPT
        !.sales_price =
            IF extracted.sales_price # None /\ ~AnyKeyword(price_keywords, prompt)
            THEN None ELSE extracted.sales_price,
        !.expected_revenue =
            IF extracted.expected_revenue # None /\ ~RevenueMentioned(prompt)
            THEN None ELSE extracted.expected_revenue]

\* prompts: no keyword; a price keyword in capitals; "$" alone; a revenue
\* keyword alone; a price keyword inside a word with a revenue keyword
Prompts ==
    { <<"G", "x", " ", "d", "e", "a", "l">>,
      <<"P", "R", "I", "C", "E", " ", "9">>,
      <<"$", "9">>,
      <<"U", "s", "d", " ", "9">>,
      <<"F", "o", "r", "e", "c", "a", "s", "t", " ", "7">>,
      <<"c", "o", "s", "t", "l", "y", " ", "r", "e", "v", "e", "n", "u", "e">> }

\* the JSON object the extraction call returns
ExtractedObjects ==
    [product : {None, Some(Gx)}, sector : {None, Some(Fin)},
     sales_price : {None, Some(9), Some(0)},
     expected_revenue : {None, Some(7)}]

\* the reply is not JSON (kind "text"), or it is one of the objects
PromptReplies ==
    { [kind |-> "text", value |-> EmptyDict] }
    \cup { [kind |-> "json", value |-> e] : e \in ExtractedObjects }

InitExtraction ==
    /\ NoEngine
    /\ NoService
    /\ lookup = None
    /\ session_state = None
    /\ chat_request = None
    /\ extraction \in { Some([stage |-> "called", prompt |-> p, reply |-> r,
                              returned |-> None]) :
                        p \in Prompts, r \in PromptReplies }

\* lines 441-447: the parsed and validated object is returned; a reply that
\* is not JSON gives {}
ExtractFromPrompt ==
    /\ extraction # None
    /\ Val(extraction).stage = "called"
    /\ extraction' =
          Some([Val(extraction) EXCEPT
                  !.stage = "returned",
                  !.returned =
                      Some(IF Val(extraction).reply.kind = "text"
                           THEN extract_attributes(Val(extraction).reply)
                           ELSE validate_extracted(
                                    extract_attributes(Val(extraction).reply),
                                    Val(extraction).prompt))])
    /\ UNCHANGED <<stats, qual_stats, pc, attrs, uplift_reply, relevant, result,
                   llm_calls, served, earlier, lookup, service, session_state,
                   chat_request>>

NextExtraction == ExtractFromPrompt

SpecExtraction == InitExtraction /\ [][NextExtraction]_vars

\* the call returned an object parsed from a JSON reply
Validated ==
    /\ extraction # None
    /\ Val(extraction).stage = "returned"
    /\ Val(extraction).reply.kind = "json"

\* every field other than the two validated ones is as extracted
OtherFieldsKept ==
    LET e == Val(extraction).reply.value
        r == Val(Val(extraction).returned) IN
    /\ DOMAIN r = DOMAIN e
    /\ \A f \in DOMAIN e \ {"sales_price", "expected_revenue"} : r[f] = e[f]

\* C27 as stated: after extraction, an extracted sales_price is reset to
\* null whenever the prompt contains none of the price keywords, and an
\* extracted expected_revenue is reset to null whenever the prompt contains
\* none of the revenue keywords 'revenue', 'expected', 'forecast'; every
\* other extracted field is left unchanged.
C27_KeywordValidation ==
    Validated =>
        LET p == Lower(Val(extraction).prompt)
            r == Val(Val(extraction).returned) IN
        /\ (\A k \in price_keywords : ~Contains(p, k)) => r.sales_price = None
        /\ (\A k \in revenue_keywords : ~Contains(p, k)) => r.expected_revenue = None
        /\ OtherFieldsKept

\* C27 amended: an extracted sales_price is reset to null exactly when the
\* prompt contains none of the price keywords; an extracted expected_revenue
\* is reset to null exactly when the prompt contains none of the revenue
\* keywords and no "$" either; every other extracted field is left unchanged.
C27_KeywordOrDollarValidation ==
    Validated =>
        LET p == Lower(Val(extraction).prompt)
            e == Val(extraction).reply.value
            r == Val(Val(extraction).returned) IN
        /\ r.sales_price =
              IF \A k \in price_keywords : ~Contains(p, k) THEN None ELSE e.sales_price
        /\ r.expected_revenue =
              IF /\ \A k \in revenue_keywords : ~Contains(p, k)
                 /\ ~Contains(Val(extraction).prompt, Dollar)
              THEN None ELSE e.expected_revenue
        /\ OtherFieldsKept

\* a prompt with "$" and no revenue keyword: the extracted revenue is kept,
\* next to a product that is kept as well
C27_Witness ==
    /\ Validated
    /\ Contains(Val(extraction).prompt, Dollar)
    /\ \A k \in revenue_keywords : ~Contains(Lower(Val(extraction).prompt), k)
    /\ Val(extraction).reply.value.expected_revenue # None
    /\ Val(Val(extraction).returned).expected_revenue
          = Val(extraction).reply.value.expected_revenue
    /\ Val(Val(extraction).returned).product # None

\* no keyword at all: an extracted price and an extracted revenue were reset
C27_ResetReached ==
    /\ Validated
    /\ Val(extraction).reply.value.sales_price # None
    /\ Val(extraction).reply.value.expected_revenue # None
    /\ Val(Val(extraction).returned).sales_price = None
    /\ Val(Val(extraction).returned).expected_revenue = None

\* the from_qual simulations of the returned list, as positions
FromQual == { i \in 1..Len(Val(relevant).simulations) :
                Val(relevant).simulations[i].from_qual }

\* C28: whenever a from_qual simulation is produced, the risk category named
\* in its description is the first key of the output loss_risks mapping,
\* also when several risks share the highest frequency.
C28_QualRiskIsFirstLossRisk ==
    pc = "assembled" =>
        \A i \in FromQual :
            /\ Val(relevant).qualitative_insights.loss_risks # None
            /\ Val(Val(relevant).qualitative_insights.loss_risks) # << >>
            /\ Val(relevant).simulations[i].description.name
                  = Val(Val(relevant).qualitative_insights.loss_risks)[1].key

\* a from_qual simulation was produced while the two first loss risks of the
\* output share the highest frequency
C28_Witness ==
    /\ pc = "assembled"
    /\ FromQual # {}
    /\ Len(Val(Val(relevant).qualitative_insights.loss_risks)) > 1
    /\ Val(Val(relevant).qualitative_insights.loss_risks)[1].frequency
          = Val(Val(relevant).qualitative_insights.loss_risks)[2].frequency

\* q is what remains of p after dropping some of its first elements
IsSuffix(q, p) ==
    /\ Len(q) <= Len(p)
    /\ q = SubSeq(p, Len(p) - Len(q) + 1, Len(p))

\* C29: a request rejected with 429 is not recorded in the rate-limit store
\* (no record grows and no pass is noted when a request is answered 429);
\* only a key's own requests that passed the check count against it (its
\* record is the most recent of its own passes); and for a key at its limit,
\* a request arriving 3600 seconds or more after the oldest request counted
\* for the key passes the rate-limit check, whatever was rejected in between.
C29_RejectedNotRecorded ==
    /\ [](\A k \in KeyStrings : IsSuffix(rate_limit_store[k], passed[k]))
    /\ [][(/\ request = None
           /\ response' # None
           /\ Val(response').status_code = 429) =>
              /\ passed' = passed
              /\ \A k \in KeyStrings :
                    IsSuffix(rate_limit_store'[k], rate_limit_store[k])]_vars
    /\ [][(/\ request = None
           /\ request' # None
           /\ Val(request').api_key # None
           /\ Val(Val(request').api_key) \in ConfiguredKeys
           /\ Len(rate_limit_store[Val(Val(request').api_key)]) = RATE_LIMIT_REQUESTS
           /\ clock - rate_limit_store[Val(Val(request').api_key)][1]
                 >= RATE_LIMIT_WINDOW) =>
              /\ pc' = "accepted"
              /\ response' = None
              /\ passed'[Val(Val(request').api_key)]
                    = Append(passed[Val(Val(request').api_key)], clock)]_vars

\* key "k1" passed ten times, was then rejected, and its request 3600
\* seconds after the first of the ten has passed
C29_Witness ==
    /\ pc = "accepted"
    /\ Val(request).api_key = Some("k1")
    /\ Val(request).at = 3600
    /\ Len(passed["k1"]) = 11
    /\ passed["k1"][1] = 0
    /\ passed["k2"] = << >>
    /\ served = 11

(***************************************************************************)
(* The conversation of the Streamlit app, src/SalesAdvisor/app.py: the     *)
(* analysis of an opportunity ends with the recommendation chat call       *)
(* (lines 672-1104), and each follow-up question is a further chat call on *)
(* st.session_state.conversation_history (lines 1180-1205).  The steps of  *)
(* the analysis before the recommendation are those of SpecApp.            *)
(***************************************************************************)
\* follow-up questions asked on one analysis before the model stops asking
MaxFollowUps == 2

Message(role, content) == [role |-> role, content |-> content]

\* opportunity descriptions typed into the chat input
Opportunities == {"opportunity"}

\* follow-up questions typed into the chat input: follow_up.strip() is not empty
Questions == {"q1", "q2"}

\* texts the chat model returns
ChatReplies == {"t1", "t2"}

\* lines 672-1090: the system message, then the user message with the
\* opportunity, matches and statistics
Conversation(opportunity) ==
    <<Message("system", "sales strategy expert"), Message("user", opportunity)>>

\* a chat request: the messages sent, and for the record the follow-up
\* question it was sent for (None for the recommendation request) with the
\* recommendation and the answers shown when it was sent
ChatRequest(follow_up, messages, shown) ==
    [follow_up |-> follow_up, messages |-> messages,
     recommendation |-> shown.recommendation,
     answers |-> [i \in 1..Len(shown.follow_up_responses) |->
                     shown.follow_up_responses[i].answer]]

\* lines 65-84, and the two sidebar buttons of lines 562-584
NewSession ==
    [conversation_history |-> << >>, recommendation |-> None,
     follow_up_responses |-> << >>, show_analysis |-> FALSE]

InitChat ==
    /\ NoEngine
    /\ NoService
    /\ lookup = None
    /\ extraction = None
    /\ session_state = Some(NewSession)
    /\ chat_request = None

\* lines 608-1104: an opportunity is submitted and analysed; the
\* recommendation call is sent the conversation and its reply is stored
SubmitOpportunity ==
    /\ session_state # None
    /\ ~Val(session_state).show_analysis
    /\ served < MaxRequests
    /\ \E opportunity \in Opportunities, reply \in ChatReplies :
        LET conversation == Conversation(opportunity) IN
        /\ chat_request' = Some(ChatRequest(None, conversation, NewSession))
        /\ session_state' = Some([conversation_history |-> conversation,
                                  recommendation |-> Some(reply),
                                  follow_up_responses |-> << >>,
                                  show_analysis |-> TRUE])
    /\ served' = served + 1
    /\ UNCHANGED <<stats, qual_stats, pc, attrs, uplift_reply, relevant, result,
                   llm_calls, earlier, lookup, service, extraction>>

\* lines 1180-1205: the question is appended, the chat call is sent the
\* history, the answer is appended to the history and to the responses
AskFollowUp ==
    /\ session_state # None
    /\ Val(session_state).show_analysis
    /\ Val(session_state).recommendation # None
    /\ Len(Val(session_state).conversation_history) < 2 + 2 * MaxFollowUps
    /\ \E follow_up \in Questions, answer \in ChatReplies :
        LET asked == Append(Val(session_state).conversation_history,
                            Message("user", follow_up)) IN
        /\ chat_request' = Some(ChatRequest(Some(follow_up), asked, Val(session_state)))
        /\ session_state' =
              Some([Val(session_state) EXCEPT
                      !.conversation_history = Append(asked, Message("assistant", answer)),
                      !.follow_up_responses =
                          Append(@, [question |-> follow_up, answer |-> answer])])
    /\ UNCHANGED <<stats, qual_stats, pc, attrs, uplift_reply, relevant, result,
                   llm_calls, served, earlier, lookup, service, extraction>>

\* lines 1183-1194 when llm_chat raises: the question is already in the
\* history, the script run ends there
FollowUpFails ==
    /\ session_state # None
    /\ Val(session_state).show_analysis
    /\ Val(session_state).recommendation # None
    /\ Len(Val(session_state).conversation_history) < 2 + 2 * MaxFollowUps
    /\ \E follow_up \in Questions :
        LET asked == Append(Val(session_state).conversation_history,
                            Message("user", follow_up)) IN
        /\ chat_request' = Some(ChatRequest(Some(follow_up), asked, Val(session_state)))
        /\ session_state' =
              Some([Val(session_state) EXCEPT !.conversation_history = asked])
    /\ UNCHANGED <<stats, qual_stats, pc, attrs, uplift_reply, relevant, result,
                   llm_calls, served, earlier, lookup, service, extraction>>

\* lines 562-584: "Analyze New Opportunity" or "Clear History" is pressed
ResetSession ==
    /\ session_state # None
    /\ Val(session_state).show_analysis
    /\ session_state' = Some(NewSession)
    /\ UNCHANGED <<stats, qual_stats, pc, attrs, uplift_reply, relevant, result,
                   llm_calls, served, earlier, lookup, service, extraction,
                   chat_request>>

NextChat ==
    \/ SubmitOpportunity
    \/ AskFollowUp
    \/ FollowUpFails
    \/ ResetSession

SpecChat == InitChat /\ [][NextChat]_vars

\* the assistant messages of a message list, in order
AssistantContents(messages) ==
    LET assistant == SelectSeq(messages, LAMBDA m : m.role = "assistant") IN
    [i \in 1..Len(assistant) |-> assistant[i].content]

\* C30: in every chat request sent for a follow-up question, the message
\* list holds the previously generated recommendation and all earlier
\* follow-up answers as assistant messages, in that order; after the system
\* message, user and assistant messages strictly alternate; and the list
\* ends with the new question.
C30_FollowUpCarriesConversation ==
    (chat_request # None /\ Val(chat_request).follow_up # None) =>
        LET messages == Val(chat_request).messages IN
        /\ messages[1].role = "system"
        /\ AssistantContents(messages)
              = <<Val(Val(chat_request).recommendation)>> \o Val(chat_request).answers
        /\ \A i \in 2..Len(messages) :
              messages[i].role = (IF i % 2 = 0 THEN "user" ELSE "assistant")
        /\ messages[Len(messages)] = Message("user", Val(Val(chat_request).follow_up))

====
